---- MODULE Spec2Model ----
(***************************************************************************)
(* Memory game server: the move resolver (applyMove / unlockBoard), the    *)
(* deck and player factory (createGameState, shuffle), the session         *)
(* registry (gameManager), the sanitizer and the WebSocket message handler *)
(* with its delayed unlock timer.                                          *)
(*                                                                         *)
(* JavaScript arrays are sequences; a 0-based index i of the source is the *)
(* position i + 1 here.  activePlayerIndex keeps its 0-based value.        *)
(* Opaque ids (nanoid) are positive integers handed out by a counter; 0    *)
(* stands for a missing / empty (falsy) id in a request.                   *)
(***************************************************************************)
EXTENDS Integers, Sequences, FiniteSets, TLC

VARIABLES
    games,          \* gameManager: Map gameId -> gameState
    idCounter,      \* ID supplier: number of ids handed out so far
    timers,         \* pending setTimeout callbacks, in arming order
    wsOpen,         \* per socket: ws.readyState === 1
    currentGameId,  \* per connection closure: let currentGameId
    lastSent,       \* per open socket: last payload passed to ws.send
    sentFrom,       \* per open socket: the gameState last handed to sendGameState
    lastOp,         \* the handler that ran last
    misses          \* per game: number of mismatches committed so far

vars == <<games, idCounter, timers, wsOpen, currentGameId, lastSent,
          sentFrom, lastOp, misses>>

----------------------------------------------------------------------------
(* Bounds of the model *)

\* seeds of the random source used by shuffle: 0 .. MaxSeed
MaxSeed == 0

\* mismatching second flips accepted per game
MaxMisses == 1

\* with a card flipped, a client picks among the first MaxPick face-down
\* cards of the board
MaxPick == 1

\* the connections that exist
Sockets == {"ws1"}

----------------------------------------------------------------------------
(* Program constants *)

DEFAULT_REVEAL_DELAY_MS == 800

colors == <<"red", "yellow", "blue", "green">>

cardValues == <<"A", "B", "C", "D", "E", "F", "G", "H">>

\* Math.random() returns RandomNumerator / RandomDenominator in [0, 1)
RandomDenominator == 8

----------------------------------------------------------------------------
(* Small helpers for JavaScript array operations *)

Range(s) == {s[i] : i \in DOMAIN s}

\* Array.prototype.includes
Includes(s, x) == \E i \in DOMAIN s : s[i] = x

\* position of the first card with this id, 0 when cards.find gives undefined
FindCard(cards, cardId) ==
    IF \E i \in DOMAIN cards : cards[i].id = cardId
    THEN CHOOSE i \in DOMAIN cards :
             /\ cards[i].id = cardId
             /\ \A k \in 1..(i - 1) : cards[k].id # cardId
    ELSE 0

\* a win check that is satisfied by one matched card
AllMatchedSome(cards) == \E i \in DOMAIN cards : cards[i].isMatched

\* cards.every((card) => card.isMatched)
AllMatched(cards) == \A i \in DOMAIN cards : cards[i].isMatched

----------------------------------------------------------------------------
(* shuffle.js: Fisher-Yates over i = length-1 down to 1, j in [0, i] *)

\* Math.random(): the k-th draw of the random source with this seed
MathRandom(seed, k) == (seed * 5 + k * 3) % RandomDenominator

\* Math.floor(Math.random() * (i + 1))
RandomIndex(seed, k, i) == (MathRandom(seed, k) * (i + 1)) \div RandomDenominator

\* an exchange that writes one side only
SwapOverwrite(a, i, j) ==
    [a EXCEPT ![i + 1] = a[j + 1]]

\* [shuffled[i], shuffled[j]] = [shuffled[j], shuffled[i]], 0-based i and j
Swap(a, i, j) ==
    [a EXCEPT ![i + 1] = a[j + 1], ![j + 1] = a[i + 1]]

RECURSIVE ShuffleLoop(_, _, _)
ShuffleLoop(shuffled, i, rnd) ==
    IF i > 0
    THEN ShuffleLoop(Swap(shuffled, i, rnd[i]), i - 1, rnd)
    ELSE shuffled

\* rnd[i] is the index j drawn in the iteration with loop variable i
shuffle(array, rnd) == ShuffleLoop(array, Len(array) - 1, rnd)

\* one call of shuffle: the array passed in as it is after the call, and
\* the array returned (const shuffled = [...array] is a copy)
shuffleCall(array, rnd) ==
    [array |-> array, returned |-> shuffle(array, rnd)]

\* the draws of one call of shuffle on n elements under this seed
RandomDraws(seed, n) ==
    [i \in 1..(n - 1) |-> RandomIndex(seed, n - i, i)]

----------------------------------------------------------------------------
(* createGameState: players, card pairs, shuffle, initial session.        *)
(* firstId is the first id the ID supplier hands out to this call; ids    *)
(* are consumed in call order: players, cards, gameId.                     *)

\* a range check that lets counts below 1 through
CreateThrowsAboveFour(playerCount) == playerCount > 4

CreateThrows(playerCount) == playerCount < 1 \/ playerCount > 4

\* every player gets the first color
NewPlayersFirstColor(playerCount, firstId) ==
    [i \in 1..playerCount |->
        [id |-> firstId + i - 1, color |-> colors[1], score |-> 0]]

NewPlayers(playerCount, firstId) ==
    [i \in 1..playerCount |->
        [id |-> firstId + i - 1, color |-> colors[i], score |-> 0]]

\* cardValues.forEach: two cards pushed per value
NewCards(firstCardId) ==
    [k \in 1..(2 * Len(cardValues)) |->
        [id |-> firstCardId + k - 1,
         value |-> cardValues[(k + 1) \div 2],
         isMatched |-> FALSE]]

IdsUsedByCreate(playerCount) == playerCount + 2 * Len(cardValues) + 1

createGameState(playerCount, firstId, seed) ==
    LET cards == NewCards(firstId + playerCount)
    IN  [gameId |-> firstId + playerCount + Len(cards),
         cards |-> shuffle(cards, RandomDraws(seed, Len(cards))),
         players |-> NewPlayers(playerCount, firstId),
         activePlayerIndex |-> 0,
         flippedCardIds |-> <<>>,
         lockBoard |-> FALSE,
         status |-> "playing"]

----------------------------------------------------------------------------
(* applyMove.js as imported by the server: the variant that returns        *)
(* { error } on an illegal move and advances the turn when the mismatch is *)
(* committed; unlockBoard only flips the cards back.                       *)
(* A result is a record whose fields are the properties the source         *)
(* returns: [error], [error, gameState], [gameState, needsDelayAction] or  *)
(* [gameState, needsDelayAction, delayMs].                                 *)

HasError(result) == "error" \in DOMAIN result

\* only the two cards of the new pair are matched afterwards
MarkMatchedOnly(cards, firstId, secondId) ==
    [i \in DOMAIN cards |->
        [cards[i] EXCEPT !.isMatched =
            (cards[i].id = firstId \/ cards[i].id = secondId)]]

\* only the card flipped first is marked
MarkMatchedFirst(cards, firstId, secondId) ==
    [i \in DOMAIN cards |->
        IF cards[i].id = firstId
        THEN [cards[i] EXCEPT !.isMatched = TRUE]
        ELSE cards[i]]

\* the two cards of the pair are taken off the board
MarkMatchedRemoves(cards, firstId, secondId) ==
    SelectSeq(cards, LAMBDA card : card.id # firstId /\ card.id # secondId)

\* gameState.cards.map: mark the two cards as matched
MarkMatched(cards, firstId, secondId) ==
    [i \in DOMAIN cards |->
        IF cards[i].id = firstId \/ cards[i].id = secondId
        THEN [cards[i] EXCEPT !.isMatched = TRUE]
        ELSE cards[i]]

\* the point always goes to the first player
AddScoreFirst(players, activePlayerIndex) ==
    [i \in DOMAIN players |->
        IF i = 1
        THEN [players[i] EXCEPT !.score = players[i].score + 1]
        ELSE players[i]]

\* a match is worth two points
AddScoreTwo(players, activePlayerIndex) ==
    [i \in DOMAIN players |->
        IF i - 1 = activePlayerIndex
        THEN [players[i] EXCEPT !.score = players[i].score + 2]
        ELSE players[i]]

\* a match gives every player a point
AddScoreEveryone(players, activePlayerIndex) ==
    [i \in DOMAIN players |->
        [players[i] EXCEPT !.score = players[i].score + 1]]

\* gameState.players.map: the active player scores one point
AddScore(players, activePlayerIndex) ==
    [i \in DOMAIN players |->
        IF i - 1 = activePlayerIndex
        THEN [players[i] EXCEPT !.score = players[i].score + 1]
        ELSE players[i]]

\* the turn passes to the next seat and never comes back to the first
nextPlayerIndexNoWrap(gameState) ==
    gameState.activePlayerIndex + 1

\* nextPlayerIndex: the seat after the active one, the first after the last
nextPlayerIndex(gameState) ==
    (gameState.activePlayerIndex + 1) % Len(gameState.players)

\* second flip whose mismatch does not lock the board
ResolveSecondFlipNoLock(gameState, updatedFlippedCardIds, revealDelayMs) ==
    LET firstId == updatedFlippedCardIds[1]
        secondId == updatedFlippedCardIds[2]
        first == FindCard(gameState.cards, firstId)
        second == FindCard(gameState.cards, secondId)
    IN  IF first = 0 \/ second = 0
        THEN [error |-> "Internal error: flipped cards not found.",
              gameState |-> [gameState EXCEPT !.flippedCardIds = <<>>]]
        ELSE IF gameState.cards[first].value = gameState.cards[second].value
        THEN LET updatedCards == MarkMatched(gameState.cards, firstId, secondId)
             IN  [gameState |->
                      [gameState EXCEPT
                          !.cards = updatedCards,
                          !.players = AddScore(gameState.players,
                                               gameState.activePlayerIndex),
                          !.flippedCardIds = <<>>,
                          !.lockBoard = FALSE,
                          !.status = IF AllMatched(updatedCards)
                                     THEN "won" ELSE "playing"],
                  needsDelayAction |-> FALSE]
        ELSE [gameState |->
                  [gameState EXCEPT
                      !.flippedCardIds = updatedFlippedCardIds,
                      !.activePlayerIndex =
                          (gameState.activePlayerIndex + 1)
                              % Len(gameState.players)],
              needsDelayAction |-> TRUE,
              delayMs |-> revealDelayMs]

\* second flip whose match leaves the two ids in flippedCardIds
ResolveSecondFlipKeepsFlipped(gameState, updatedFlippedCardIds, revealDelayMs) ==
    LET firstId == updatedFlippedCardIds[1]
        secondId == updatedFlippedCardIds[2]
        first == FindCard(gameState.cards, firstId)
        second == FindCard(gameState.cards, secondId)
    IN  IF first = 0 \/ second = 0
        THEN [error |-> "Internal error: flipped cards not found.",
              gameState |-> [gameState EXCEPT !.flippedCardIds = <<>>]]
        ELSE IF gameState.cards[first].value = gameState.cards[second].value
        THEN LET updatedCards == MarkMatched(gameState.cards, firstId, secondId)
             IN  [gameState |->
                      [gameState EXCEPT
                          !.cards = updatedCards,
                          !.players = AddScore(gameState.players,
                                               gameState.activePlayerIndex),
                          !.flippedCardIds = updatedFlippedCardIds,
                          !.lockBoard = FALSE,
                          !.status = IF AllMatched(updatedCards)
                                     THEN "won" ELSE "playing"],
                  needsDelayAction |-> FALSE]
        ELSE [gameState |->
                  [gameState EXCEPT
                      !.flippedCardIds = updatedFlippedCardIds,
                      !.lockBoard = TRUE,
                      !.activePlayerIndex =
                          (gameState.activePlayerIndex + 1)
                              % Len(gameState.players)],
              needsDelayAction |-> TRUE,
              delayMs |-> revealDelayMs]

\* the part of applyMove after the card was appended to flippedCardIds
ResolveSecondFlip(gameState, updatedFlippedCardIds, revealDelayMs) ==
    LET firstId == updatedFlippedCardIds[1]
        secondId == updatedFlippedCardIds[2]
        first == FindCard(gameState.cards, firstId)
        second == FindCard(gameState.cards, secondId)
    IN  IF first = 0 \/ second = 0
        THEN [error |-> "Internal error: flipped cards not found.",
              gameState |-> [gameState EXCEPT !.flippedCardIds = <<>>]]
        ELSE IF gameState.cards[first].value = gameState.cards[second].value
        THEN LET updatedCards == MarkMatched(gameState.cards, firstId, secondId)
             IN  [gameState |->
                      [gameState EXCEPT
                          !.cards = updatedCards,
                          !.players = AddScore(gameState.players,
                                               gameState.activePlayerIndex),
                          !.flippedCardIds = <<>>,
                          !.lockBoard = FALSE,
                          !.status = IF AllMatched(updatedCards)
                                     THEN "won" ELSE "playing"],
                  needsDelayAction |-> FALSE]
        ELSE [gameState |->
                  [gameState EXCEPT
                      !.flippedCardIds = updatedFlippedCardIds,
                      !.lockBoard = TRUE,
                      !.activePlayerIndex = nextPlayerIndex(gameState)],
              needsDelayAction |-> TRUE,
              delayMs |-> revealDelayMs]

\* applyMove without the check for a card that is already flipped
applyMoveDelayNoFlippedCheck(gameState, cardId, revealDelayMs) ==
    LET clicked == FindCard(gameState.cards, cardId)
        updatedFlippedCardIds == Append(gameState.flippedCardIds, cardId)
    IN  IF gameState.status # "playing"
        THEN [error |-> "Game is not active."]
        ELSE IF clicked = 0
        THEN [error |-> "Invalid cardId."]
        ELSE IF gameState.cards[clicked].isMatched
        THEN [error |-> "Card is already matched."]
        ELSE IF Len(gameState.flippedCardIds) >= 2
        THEN [error |-> "You can only flip two cards."]
        ELSE IF Len(updatedFlippedCardIds) = 1
        THEN [gameState |->
                  [gameState EXCEPT !.flippedCardIds = updatedFlippedCardIds],
              needsDelayAction |-> FALSE]
        ELSE ResolveSecondFlip(gameState, updatedFlippedCardIds, revealDelayMs)

\* applyMove without the check for two cards already flipped
applyMoveDelayNoLimit(gameState, cardId, revealDelayMs) ==
    LET clicked == FindCard(gameState.cards, cardId)
        updatedFlippedCardIds == Append(gameState.flippedCardIds, cardId)
    IN  IF gameState.status # "playing"
        THEN [error |-> "Game is not active."]
        ELSE IF clicked = 0
        THEN [error |-> "Invalid cardId."]
        ELSE IF gameState.cards[clicked].isMatched
        THEN [error |-> "Card is already matched."]
        ELSE IF Includes(gameState.flippedCardIds, cardId)
        THEN [error |-> "Card is already flipped."]
        ELSE IF Len(updatedFlippedCardIds) = 1
        THEN [gameState |->
                  [gameState EXCEPT !.flippedCardIds = updatedFlippedCardIds],
              needsDelayAction |-> FALSE]
        ELSE ResolveSecondFlip(gameState, updatedFlippedCardIds, revealDelayMs)

\* applyMove whose first flip already locks the board
applyMoveDelayFirstFlipLocks(gameState, cardId, revealDelayMs) ==
    LET clicked == FindCard(gameState.cards, cardId)
        updatedFlippedCardIds == Append(gameState.flippedCardIds, cardId)
    IN  IF gameState.status # "playing"
        THEN [error |-> "Game is not active."]
        ELSE IF clicked = 0
        THEN [error |-> "Invalid cardId."]
        ELSE IF gameState.cards[clicked].isMatched
        THEN [error |-> "Card is already matched."]
        ELSE IF Includes(gameState.flippedCardIds, cardId)
        THEN [error |-> "Card is already flipped."]
        ELSE IF Len(gameState.flippedCardIds) >= 2
        THEN [error |-> "You can only flip two cards."]
        ELSE IF Len(updatedFlippedCardIds) = 1
        THEN [gameState |->
                  [gameState EXCEPT !.flippedCardIds = updatedFlippedCardIds,
                                    !.lockBoard = TRUE],
              needsDelayAction |-> FALSE]
        ELSE ResolveSecondFlip(gameState, updatedFlippedCardIds, revealDelayMs)

\* applyMove without the check that the card exists
applyMoveDelayNoCardCheck(gameState, cardId, revealDelayMs) ==
    LET clicked == FindCard(gameState.cards, cardId)
        updatedFlippedCardIds == Append(gameState.flippedCardIds, cardId)
    IN  IF gameState.status # "playing"
        THEN [error |-> "Game is not active."]
        ELSE IF clicked # 0 /\ gameState.cards[clicked].isMatched
        THEN [error |-> "Card is already matched."]
        ELSE IF Includes(gameState.flippedCardIds, cardId)
        THEN [error |-> "Card is already flipped."]
        ELSE IF Len(gameState.flippedCardIds) >= 2
        THEN [error |-> "You can only flip two cards."]
        ELSE IF Len(updatedFlippedCardIds) = 1
        THEN [gameState |->
                  [gameState EXCEPT !.flippedCardIds = updatedFlippedCardIds],
              needsDelayAction |-> FALSE]
        ELSE ResolveSecondFlip(gameState, updatedFlippedCardIds, revealDelayMs)

applyMoveDelay(gameState, cardId, revealDelayMs) ==
    LET clicked == FindCard(gameState.cards, cardId)
        updatedFlippedCardIds == Append(gameState.flippedCardIds, cardId)
    IN  IF gameState.status # "playing"
        THEN [error |-> "Game is not active."]
        ELSE IF clicked = 0
        THEN [error |-> "Invalid cardId."]
        ELSE IF gameState.cards[clicked].isMatched
        THEN [error |-> "Card is already matched."]
        ELSE IF Includes(gameState.flippedCardIds, cardId)
        THEN [error |-> "Card is already flipped."]
        ELSE IF Len(gameState.flippedCardIds) >= 2
        THEN [error |-> "You can only flip two cards."]
        ELSE IF Len(updatedFlippedCardIds) = 1
        THEN [gameState |->
                  [gameState EXCEPT !.flippedCardIds = updatedFlippedCardIds],
              needsDelayAction |-> FALSE]
        ELSE ResolveSecondFlip(gameState, updatedFlippedCardIds, revealDelayMs)

\* applyMove(gameState, cardId) with the default revealDelayMs
applyMove(gameState, cardId) ==
    applyMoveDelay(gameState, cardId, DEFAULT_REVEAL_DELAY_MS)

\* an unlock that leaves the two cards flipped
unlockBoardKeepsCards(gameState) ==
    [gameState EXCEPT !.lockBoard = FALSE]

\* an unlock that clears the flipped cards but leaves the board locked
unlockBoardKeepsLock(gameState) ==
    [gameState EXCEPT !.flippedCardIds = <<>>]

\* an unlock that leaves the session as it is
unlockBoardNothing(gameState) ==
    gameState

unlockBoard(gameState) ==
    [gameState EXCEPT !.flippedCardIds = <<>>, !.lockBoard = FALSE]

----------------------------------------------------------------------------
(* The other applyMove in the source: illegal moves are ignored silently   *)
(* ({ ignored: true, gameState }), the lockBoard check is active and the   *)
(* turn advances in unlockBoardAfterNoMatch.                               *)

IsIgnored(result) == "ignored" \in DOMAIN result

ResolveSecondFlipSilent(gameState, updatedFlippedCardIds, revealDelayMs) ==
    LET firstId == updatedFlippedCardIds[1]
        secondId == updatedFlippedCardIds[2]
        first == FindCard(gameState.cards, firstId)
        second == FindCard(gameState.cards, secondId)
    IN  IF first = 0 \/ second = 0
        THEN [gameState |-> [gameState EXCEPT !.flippedCardIds = <<>>,
                                              !.lockBoard = FALSE],
              needsDelayAction |-> FALSE]
        ELSE IF gameState.cards[first].value = gameState.cards[second].value
        THEN LET updatedCards == MarkMatched(gameState.cards, firstId, secondId)
             IN  [gameState |->
                      [gameState EXCEPT
                          !.cards = updatedCards,
                          !.players = AddScore(gameState.players,
                                               gameState.activePlayerIndex),
                          !.flippedCardIds = <<>>,
                          !.lockBoard = FALSE,
                          !.status = IF AllMatched(updatedCards)
                                     THEN "won" ELSE "playing"],
                  needsDelayAction |-> FALSE]
        ELSE [gameState |->
                  [gameState EXCEPT
                      !.flippedCardIds = updatedFlippedCardIds,
                      !.lockBoard = TRUE],
              needsDelayAction |-> TRUE,
              delayMs |-> revealDelayMs]

applyMoveSilentDelay(gameState, cardId, revealDelayMs) ==
    LET clicked == FindCard(gameState.cards, cardId)
        updatedFlippedCardIds == Append(gameState.flippedCardIds, cardId)
    IN  IF gameState.status # "playing"
        THEN [ignored |-> TRUE, gameState |-> gameState]
        ELSE IF gameState.lockBoard
        THEN [ignored |-> TRUE, gameState |-> gameState]
        ELSE IF clicked = 0
        THEN [ignored |-> TRUE, gameState |-> gameState]
        ELSE IF gameState.cards[clicked].isMatched
        THEN [ignored |-> TRUE, gameState |-> gameState]
        ELSE IF Includes(gameState.flippedCardIds, cardId)
        THEN [ignored |-> TRUE, gameState |-> gameState]
        ELSE IF Len(gameState.flippedCardIds) >= 2
        THEN [ignored |-> TRUE, gameState |-> gameState]
        ELSE IF Len(updatedFlippedCardIds) = 1
        THEN [gameState |->
                  [gameState EXCEPT !.flippedCardIds = updatedFlippedCardIds],
              needsDelayAction |-> FALSE]
        ELSE ResolveSecondFlipSilent(gameState, updatedFlippedCardIds,
                                     revealDelayMs)

applyMoveSilent(gameState, cardId) ==
    applyMoveSilentDelay(gameState, cardId, DEFAULT_REVEAL_DELAY_MS)

\* an unlock that leaves the turn with the player who missed
unlockBoardAfterNoMatchKeepsTurn(gameState) ==
    [gameState EXCEPT !.flippedCardIds = <<>>, !.lockBoard = FALSE]

unlockBoardAfterNoMatch(gameState) ==
    [gameState EXCEPT
        !.flippedCardIds = <<>>,
        !.lockBoard = FALSE,
        !.activePlayerIndex =
            (gameState.activePlayerIndex + 1) % Len(gameState.players)]

----------------------------------------------------------------------------
(* utils/messageFormats.js: the sanitizer the server imports *)

\* sanitizer that reveals a card only once it is matched
sanitizeGameStateMatchedOnly(gameState) ==
    [gameId |-> gameState.gameId,
     cards |->
        [i \in DOMAIN gameState.cards |->
            LET card == gameState.cards[i]
            IN  IF card.isMatched
                THEN [id |-> card.id, isFaceUp |-> TRUE,
                      isMatched |-> card.isMatched, value |-> card.value]
                ELSE [id |-> card.id, isFaceUp |-> FALSE,
                      isMatched |-> card.isMatched]],
     players |-> gameState.players,
     activePlayerIndex |-> gameState.activePlayerIndex,
     status |-> gameState.status]

\* sanitizer that marks a face-down card as such but leaves its value in
sanitizeGameStateKeepsValue(gameState) ==
    [gameId |-> gameState.gameId,
     cards |->
        [i \in DOMAIN gameState.cards |->
            LET card == gameState.cards[i]
                isFaceUp == Includes(gameState.flippedCardIds, card.id)
                                \/ card.isMatched
            IN  [id |-> card.id, isFaceUp |-> isFaceUp,
                 isMatched |-> card.isMatched, value |-> card.value]],
     players |-> gameState.players,
     activePlayerIndex |-> gameState.activePlayerIndex,
     status |-> gameState.status]

sanitizeGameState(gameState) ==
    [gameId |-> gameState.gameId,
     cards |->
        [i \in DOMAIN gameState.cards |->
            LET card == gameState.cards[i]
                isFaceUp == Includes(gameState.flippedCardIds, card.id)
                                \/ card.isMatched
            IN  IF isFaceUp
                THEN [id |-> card.id, isFaceUp |-> isFaceUp,
                      isMatched |-> card.isMatched, value |-> card.value]
                ELSE [id |-> card.id, isFaceUp |-> isFaceUp,
                      isMatched |-> card.isMatched]],
     players |-> gameState.players,
     activePlayerIndex |-> gameState.activePlayerIndex,
     status |-> gameState.status]

(* server/game/sanitizeGameState.js: the stand-alone sanitizer *)

sanitizeGameStateModule(gameState) ==
    LET flippedSet == Range(gameState.flippedCardIds)
    IN  [gameId |-> gameState.gameId,
         status |-> gameState.status,
         lockBoard |-> gameState.lockBoard,
         flippedCardIds |-> gameState.flippedCardIds,
         activePlayerIndex |-> gameState.activePlayerIndex,
         players |->
            [i \in DOMAIN gameState.players |->
                [id |-> gameState.players[i].id,
                 color |-> gameState.players[i].color,
                 score |-> gameState.players[i].score]],
         cards |->
            [i \in DOMAIN gameState.cards |->
                LET card == gameState.cards[i]
                    shouldRevealValue == card.isMatched \/ card.id \in flippedSet
                IN  IF shouldRevealValue
                    THEN [id |-> card.id, isMatched |-> card.isMatched,
                          value |-> card.value]
                    ELSE [id |-> card.id, isMatched |-> card.isMatched]]]

----------------------------------------------------------------------------
(* utils/messageFormats.js: validators.                                    *)
(* A raw playerCount is [t |-> "undefined"], [t |-> "number", tenths |-> n]*)
(* for the number n / 10, or [t |-> "string", chars |-> <<...>>].          *)

Digits == <<"0", "1", "2", "3", "4", "5", "6", "7", "8", "9">>

IsDigit(c) == Includes(Digits, c)

DigitValue(c) == (CHOOSE d \in DOMAIN Digits : Digits[d] = c) - 1

\* JavaScript truthiness of a raw value
Truthy(v) ==
    CASE v.t = "undefined" -> FALSE
      [] v.t = "number" -> v.tenths # 0
      [] v.t = "string" -> v.chars # <<>>

\* the value of the longest digit prefix of chars, acc the value so far
RECURSIVE DigitPrefix(_, _)
DigitPrefix(chars, acc) ==
    IF chars # <<>> /\ IsDigit(Head(chars))
    THEN DigitPrefix(Tail(chars), 10 * acc + DigitValue(Head(chars)))
    ELSE acc

RECURSIVE SkipSpaces(_)
SkipSpaces(chars) ==
    IF chars # <<>> /\ Head(chars) = " " THEN SkipSpaces(Tail(chars)) ELSE chars

\* parseInt of a string: spaces, an optional sign, then a digit prefix
ParseIntChars(chars) ==
    LET trimmed == SkipSpaces(chars)
        negative == trimmed # <<>> /\ Head(trimmed) = "-"
        signed == trimmed # <<>> /\ Head(trimmed) \in {"-", "+"}
        body == IF signed THEN Tail(trimmed) ELSE trimmed
    IN  IF body = <<>> \/ ~IsDigit(Head(body))
        THEN [nan |-> TRUE]
        ELSE [nan |-> FALSE,
              n |-> IF negative THEN 0 - DigitPrefix(body, 0)
                    ELSE DigitPrefix(body, 0)]

\* parseInt(value): a number is converted to its decimal string first, so
\* the fraction is dropped (truncation toward zero)
parseInt(v) ==
    CASE v.t = "undefined" -> [nan |-> TRUE]
      [] v.t = "number" ->
            [nan |-> FALSE,
             n |-> IF v.tenths >= 0 THEN v.tenths \div 10
                   ELSE 0 - ((0 - v.tenths) \div 10)]
      [] v.t = "string" -> ParseIntChars(v.chars)

validateNewGame(playerCount) ==
    IF ~Truthy(playerCount)
    THEN [valid |-> FALSE, error |-> "Missing playerCount"]
    ELSE LET count == parseInt(playerCount)
         IN  IF count.nan \/ count.n < 1 \/ count.n > 4
             THEN [valid |-> FALSE,
                   error |-> "playerCount must be between 1 and 4"]
             ELSE [valid |-> TRUE, playerCount |-> count.n]

\* a validator that does not look at cardId
validateFlipCardNoCardCheck(gameId, cardId) ==
    IF gameId = 0
    THEN [valid |-> FALSE, error |-> "Missing gameId"]
    ELSE [valid |-> TRUE, gameId |-> gameId, cardId |-> cardId]

\* ids in requests are integers, 0 is a missing or empty id
validateFlipCard(gameId, cardId) ==
    IF gameId = 0
    THEN [valid |-> FALSE, error |-> "Missing gameId"]
    ELSE IF cardId = 0
    THEN [valid |-> FALSE, error |-> "Missing cardId"]
    ELSE [valid |-> TRUE, gameId |-> gameId, cardId |-> cardId]

----------------------------------------------------------------------------
(* gameManager.js: the registry *)

\* games.get(gameId) ?? null
HasGame(gameId) == gameId \in DOMAIN games

\* null
Null == [null |-> TRUE]

getGame(gameId) == IF HasGame(gameId) THEN games[gameId] ELSE Null

\* an update that writes the new state over every entry
updateGameAll(gameId, newState) ==
    [g \in DOMAIN games \cup {gameId} |-> newState]

\* an update that keeps the fields of the old entry the new one lacks
updateGameMerge(gameId, newState) ==
    [g \in DOMAIN games \cup {gameId} |->
        IF g # gameId THEN games[g]
        ELSE IF g \notin DOMAIN games THEN newState
        ELSE [f \in DOMAIN games[g] \cup DOMAIN newState |->
                 IF f \in DOMAIN newState THEN newState[f] ELSE games[g][f]]]

\* games.set(gameId, newState)
updateGame(gameId, newState) ==
    [g \in DOMAIN games \cup {gameId} |->
        IF g = gameId THEN newState ELSE games[g]]

\* createGameState, then games.set(gameState.gameId, gameState)
createGame(playerCount, seed) ==
    LET gameState == createGameState(playerCount, idCounter + 1, seed)
    IN  updateGame(gameState.gameId, gameState)

\* games.delete(gameId)
deleteGame(gameId) ==
    [g \in DOMAIN games \ {gameId} |-> games[g]]

----------------------------------------------------------------------------
(* createServer.js: sending *)

NoMessage == [type |-> "NONE"]

NoState == [none |-> TRUE]

ErrorMessage(text) == [type |-> "ERROR", message |-> text]

\* direct serialization of the authoritative session
GameStateMessageRaw(gameState) ==
    [type |-> "GAME_STATE",
     gameId |-> gameState.gameId,
     cards |-> gameState.cards,
     players |-> gameState.players,
     activePlayerIndex |-> gameState.activePlayerIndex,
     status |-> gameState.status]

\* { type: "GAME_STATE", ...sanitized }
GameStateMessage(gameState) ==
    LET sanitized == sanitizeGameState(gameState)
    IN  [type |-> "GAME_STATE",
         gameId |-> sanitized.gameId,
         cards |-> sanitized.cards,
         players |-> sanitized.players,
         activePlayerIndex |-> sanitized.activePlayerIndex,
         status |-> sanitized.status]

\* safeSend: nothing is sent on a socket that is not open
safeSend(ws, payload) ==
    IF wsOpen[ws] THEN [lastSent EXCEPT ![ws] = payload] ELSE lastSent

sendGameState(ws, gameState) == safeSend(ws, GameStateMessage(gameState))

\* the session handed to the last sendGameState that reached the socket
NoteSent(ws, gameState) ==
    IF wsOpen[ws] THEN [sentFrom EXCEPT ![ws] = gameState] ELSE sentFrom

----------------------------------------------------------------------------
(* Requests a client can send *)

RawNumber(n10) == [t |-> "number", tenths |-> n10]

RawString(chars) == [t |-> "string", chars |-> chars]

PlayerCountInputs ==
    {[t |-> "undefined"]}
        \cup {RawNumber(n10) : n10 \in {-10, 0, 10, 20, 25, 30, 40, 50}}
        \cup {RawString(chars) :
                chars \in {<<>>, <<"2">>, <<"a", "b">>, <<"3", "x">>,
                           <<" ", "4">>, <<"1", "0">>}}

\* an id the ID supplier has not handed out
UnknownId == idCounter + 1

CardIds(gameState) == {gameState.cards[i].id : i \in DOMAIN gameState.cards}

GameIdInputs == {0, UnknownId} \cup DOMAIN games

\* board positions of the cards that lie face down
FaceDown(gameState) ==
    {i \in DOMAIN gameState.cards :
        /\ ~gameState.cards[i].isMatched
        /\ ~Includes(gameState.flippedCardIds, gameState.cards[i].id)}

\* the first face-down card in board order, if any
OpeningCard(gameState) ==
    LET faceDown == FaceDown(gameState)
    IN  {gameState.cards[i].id : i \in
            {i \in faceDown : \A k \in faceDown : i <= k}}

\* the first MaxPick face-down cards in board order
PickWindow(gameState) ==
    LET faceDown == FaceDown(gameState)
    IN  {gameState.cards[i].id : i \in
            {i \in faceDown :
                Cardinality({k \in faceDown : k < i}) < MaxPick}}

\* the cards that carry the value of a flipped card
Partners(gameState) ==
    {gameState.cards[i].id : i \in
        {i \in DOMAIN gameState.cards :
            \E k \in DOMAIN gameState.cards :
                /\ Includes(gameState.flippedCardIds, gameState.cards[k].id)
                /\ gameState.cards[k].value = gameState.cards[i].value}}

\* the first matched card in board order, if any
FirstMatched(gameState) ==
    {gameState.cards[i].id : i \in
        {i \in DOMAIN gameState.cards :
            /\ gameState.cards[i].isMatched
            /\ \A k \in 1..(i - 1) : ~gameState.cards[k].isMatched}}

\* the card ids a client sends for this game: with no card flipped the
\* first face-down card, otherwise a face-down card of the window, a
\* flipped card or its partner; a matched card, no id, an id that names
\* no card
CardIdInputs(gameId) ==
    {0, UnknownId} \cup
        (IF HasGame(gameId)
         THEN (IF games[gameId].flippedCardIds = <<>>
               THEN OpeningCard(games[gameId])
               ELSE PickWindow(games[gameId]) \cup Partners(games[gameId]))
                  \cup FirstMatched(games[gameId])
         ELSE {})

----------------------------------------------------------------------------
(* State machine of the server *)

Init ==
    /\ games = <<>>
    /\ idCounter = 0
    /\ timers = <<>>
    /\ wsOpen = [ws \in Sockets |-> TRUE]
    /\ currentGameId = [ws \in Sockets |-> 0]
    /\ lastSent = [ws \in Sockets |-> NoMessage]
    /\ sentFrom = [ws \in Sockets |-> NoState]
    /\ lastOp = "init"
    /\ misses = <<>>

\* ws.on("message") with message.type === "NEW_GAME".  seed stands for the
\* random numbers the shuffle draws; a rejected request draws none and is
\* taken with seed 0.
NewGameHandler(ws, playerCount, seed) ==
    /\ wsOpen[ws]
    /\ LET validation == validateNewGame(playerCount)
       IN  IF ~validation.valid
           THEN /\ seed = 0
                /\ lastSent' = safeSend(ws, ErrorMessage(validation.error))
                /\ UNCHANGED <<games, idCounter, currentGameId, sentFrom, misses>>
           ELSE LET newGames == createGame(validation.playerCount, seed)
                    gameId == idCounter + IdsUsedByCreate(validation.playerCount)
                IN  /\ ~CreateThrows(validation.playerCount)
                    /\ games' = newGames
                    /\ idCounter' = gameId
                    /\ currentGameId' = [currentGameId EXCEPT ![ws] = gameId]
                    /\ lastSent' = sendGameState(ws, newGames[gameId])
                    /\ sentFrom' = NoteSent(ws, newGames[gameId])
                    /\ misses' = [g \in DOMAIN misses \cup {gameId} |->
                                     IF g = gameId THEN 0 ELSE misses[g]]
    /\ lastOp' = "NEW_GAME"
    /\ UNCHANGED <<timers, wsOpen>>

\* A NEW_GAME message arrives.  A connection starts at most one game.
NewGame(ws, playerCount, seed) ==
    /\ validateNewGame(playerCount).valid => currentGameId[ws] = 0
    /\ NewGameHandler(ws, playerCount, seed)

\* a handler that arms the unlock timer after every accepted flip
FlipCardEffectAlwaysArms(ws, gameId, cardId) ==
    LET validation == validateFlipCard(gameId, cardId)
        rejected(text) ==
            [games |-> games, timers |-> timers,
             lastSent |-> safeSend(ws, ErrorMessage(text)),
             sentFrom |-> sentFrom, armed |-> FALSE]
    IN  IF ~validation.valid
        THEN rejected(validation.error)
        ELSE IF ~HasGame(validation.gameId)
        THEN rejected("Game not found")
        ELSE LET result == applyMove(getGame(validation.gameId),
                                     validation.cardId)
             IN  IF HasError(result)
                 THEN rejected(result.error)
                 ELSE [games |-> updateGame(validation.gameId, result.gameState),
                       timers |-> Append(timers, [gameId |-> validation.gameId,
                                                  ws |-> ws,
                                                  delayMs |-> DEFAULT_REVEAL_DELAY_MS]),
                       lastSent |-> sendGameState(ws, result.gameState),
                       sentFrom |-> NoteSent(ws, result.gameState),
                       armed |-> result.needsDelayAction]

\* ws.on("message") with message.type === "FLIP_CARD": what the handler
\* leaves behind.  armed tells whether it called setTimeout.
FlipCardEffect(ws, gameId, cardId) ==
    LET validation == validateFlipCard(gameId, cardId)
        rejected(text) ==
            [games |-> games, timers |-> timers,
             lastSent |-> safeSend(ws, ErrorMessage(text)),
             sentFrom |-> sentFrom, armed |-> FALSE]
    IN  IF ~validation.valid
        THEN rejected(validation.error)
        ELSE IF ~HasGame(validation.gameId)
        THEN rejected("Game not found")
        ELSE LET result == applyMove(getGame(validation.gameId),
                                     validation.cardId)
             IN  IF HasError(result)
                 THEN rejected(result.error)
                 ELSE [games |-> updateGame(validation.gameId, result.gameState),
                       timers |->
                           IF result.needsDelayAction
                           THEN Append(timers, [gameId |-> validation.gameId,
                                                ws |-> ws,
                                                delayMs |-> result.delayMs])
                           ELSE timers,
                       lastSent |-> sendGameState(ws, result.gameState),
                       sentFrom |-> NoteSent(ws, result.gameState),
                       armed |-> result.needsDelayAction]

\* A FLIP_CARD message arrives for a game that takes at most maxMisses
\* mismatches.
FlipCardWithin(ws, gameId, cardId, maxMisses) ==
    /\ wsOpen[ws]
    /\ LET effect == FlipCardEffect(ws, gameId, cardId)
       IN  /\ effect.armed => misses[gameId] < maxMisses
           /\ games' = effect.games
           /\ timers' = effect.timers
           /\ lastSent' = effect.lastSent
           /\ sentFrom' = effect.sentFrom
           /\ misses' = IF effect.armed
                        THEN [misses EXCEPT ![gameId] = @ + 1]
                        ELSE misses
    /\ lastOp' = "FLIP_CARD"
    /\ UNCHANGED <<idCounter, wsOpen, currentGameId>>

\* A FLIP_CARD message arrives.  A game takes at most MaxMisses mismatches.
FlipCard(ws, gameId, cardId) == FlipCardWithin(ws, gameId, cardId, MaxMisses)

\* a callback that does nothing once its connection is closed
UnlockTimerOpenOnly ==
    /\ timers # <<>>
    /\ LET timer == Head(timers)
       IN  /\ timers' = Tail(timers)
           /\ IF HasGame(timer.gameId) /\ wsOpen[timer.ws]
              THEN LET unlockedState == unlockBoard(getGame(timer.gameId))
                   IN  /\ games' = updateGame(timer.gameId, unlockedState)
                       /\ lastSent' = sendGameState(timer.ws, unlockedState)
                       /\ sentFrom' = NoteSent(timer.ws, unlockedState)
              ELSE UNCHANGED <<games, lastSent, sentFrom>>
    /\ lastOp' = "unlock"
    /\ UNCHANGED <<idCounter, wsOpen, currentGameId, misses>>

\* a callback armed with setInterval: it stays pending after it has fired
UnlockTimerRepeats ==
    /\ timers # <<>>
    /\ LET timer == Head(timers)
       IN  /\ timers' = timers
           /\ IF HasGame(timer.gameId)
              THEN LET unlockedState == unlockBoard(getGame(timer.gameId))
                   IN  /\ games' = updateGame(timer.gameId, unlockedState)
                       /\ lastSent' = sendGameState(timer.ws, unlockedState)
                       /\ sentFrom' = NoteSent(timer.ws, unlockedState)
              ELSE UNCHANGED <<games, lastSent, sentFrom>>
    /\ lastOp' = "unlock"
    /\ UNCHANGED <<idCounter, wsOpen, currentGameId, misses>>

\* a callback without the check of currentState: it stores what unlockBoard
\* makes of null under the id of the session that is gone
UnlockTimerNoCheck ==
    /\ timers # <<>>
    /\ LET timer == Head(timers)
       IN  /\ timers' = Tail(timers)
           /\ IF HasGame(timer.gameId)
              THEN LET unlockedState == unlockBoard(getGame(timer.gameId))
                   IN  /\ games' = updateGame(timer.gameId, unlockedState)
                       /\ lastSent' = sendGameState(timer.ws, unlockedState)
                       /\ sentFrom' = NoteSent(timer.ws, unlockedState)
              ELSE /\ games' = updateGame(timer.gameId,
                                          [flippedCardIds |-> <<>>,
                                           lockBoard |-> FALSE])
                   /\ UNCHANGED <<lastSent, sentFrom>>
    /\ lastOp' = "unlock"
    /\ UNCHANGED <<idCounter, wsOpen, currentGameId, misses>>

\* the setTimeout callback armed after a mismatch; timers of equal delay
\* fire in arming order
UnlockTimer ==
    /\ timers # <<>>
    /\ LET timer == Head(timers)
       IN  /\ timers' = Tail(timers)
           /\ IF HasGame(timer.gameId)
              THEN LET unlockedState == unlockBoard(getGame(timer.gameId))
                   IN  /\ games' = updateGame(timer.gameId, unlockedState)
                       /\ lastSent' = sendGameState(timer.ws, unlockedState)
                       /\ sentFrom' = NoteSent(timer.ws, unlockedState)
              ELSE UNCHANGED <<games, lastSent, sentFrom>>
    /\ lastOp' = "unlock"
    /\ UNCHANGED <<idCounter, wsOpen, currentGameId, misses>>

\* a message of another type, or one JSON.parse or the handler throws on
OtherMessage(ws) ==
    /\ wsOpen[ws]
    /\ \/ lastSent' = safeSend(ws, ErrorMessage("Unknown message type"))
       \/ lastSent' = safeSend(ws, ErrorMessage("Invalid message format"))
    /\ lastOp' = "other"
    /\ UNCHANGED <<games, idCounter, timers, wsOpen, currentGameId, sentFrom,
                   misses>>

\* the client disconnects: ws.readyState leaves OPEN; what was sent to the
\* socket is gone with it
Close(ws) ==
    /\ wsOpen[ws]
    /\ wsOpen' = [wsOpen EXCEPT ![ws] = FALSE]
    /\ lastSent' = [lastSent EXCEPT ![ws] = NoMessage]
    /\ sentFrom' = [sentFrom EXCEPT ![ws] = NoState]
    /\ lastOp' = "close"
    /\ UNCHANGED <<games, idCounter, timers, currentGameId, misses>>

Next ==
    \/ \E ws \in Sockets, playerCount \in PlayerCountInputs, seed \in 0..MaxSeed :
           NewGame(ws, playerCount, seed)
    \/ \E ws \in Sockets, gameId \in GameIdInputs :
           \E cardId \in CardIdInputs(gameId) : FlipCard(ws, gameId, cardId)
    \/ UnlockTimer
    \/ \E ws \in Sockets : OtherMessage(ws)
    \/ \E ws \in Sockets : Close(ws)

Spec == Init /\ [][Next]_vars

----------------------------------------------------------------------------
(* Shape of the state *)

TypeOK ==
    /\ idCounter \in Nat
    /\ \A g \in DOMAIN games : games[g].gameId = g
    /\ DOMAIN misses = DOMAIN games

----------------------------------------------------------------------------
(* Vocabulary of the properties *)

\* the card ids a property ranges over for one session: every card of the
\* session and an id that names no card
MoveInputs(gameState) == CardIds(gameState) \cup {UnknownId}

\* the card of a session that has this id
CardOf(gameState, cardId) ==
    gameState.cards[CHOOSE i \in DOMAIN gameState.cards :
                        gameState.cards[i].id = cardId]

IsFlipped(gameState, cardId) ==
    \E k \in DOMAIN gameState.flippedCardIds :
        gameState.flippedCardIds[k] = cardId

\* the conditions under which a move is illegal
IllegalMove(gameState, cardId) ==
    \/ gameState.status # "playing"
    \/ gameState.lockBoard
    \/ cardId \notin CardIds(gameState)
    \/ CardOf(gameState, cardId).isMatched
    \/ IsFlipped(gameState, cardId)
    \/ Len(gameState.flippedCardIds) = 2

\* the entries of a client view follow the sanitizer contract for a session
ViewFollowsContract(view, gameState) ==
    /\ DOMAIN view = DOMAIN gameState.cards
    /\ \A i \in DOMAIN view :
        LET card == gameState.cards[i]
        IN  /\ {"id", "isMatched"} \subseteq DOMAIN view[i]
            /\ view[i].id = card.id
            /\ view[i].isMatched = card.isMatched
            /\ "value" \in DOMAIN view[i]
                   <=> (IsFlipped(gameState, card.id) \/ card.isMatched)
            /\ "value" \in DOMAIN view[i] => view[i].value = card.value

----------------------------------------------------------------------------
(* C1: in the sanitized view of every session, a card entry has a value    *)
(* field exactly when the card is flipped or matched; otherwise the field  *)
(* is absent; id and isMatched are always present.  Both sanitizers.       *)
C1_ValueIffFaceUp ==
    \A g \in DOMAIN games :
        /\ ViewFollowsContract(sanitizeGameState(games[g]).cards, games[g])
        /\ ViewFollowsContract(sanitizeGameStateModule(games[g]).cards, games[g])

\* a session with a flipped unmatched card, a matched card and a hidden card
C1_Witness ==
    \E g \in DOMAIN games :
        /\ Len(games[g].flippedCardIds) = 1
        /\ \E i \in DOMAIN games[g].cards : games[g].cards[i].isMatched
        /\ \E i \in DOMAIN games[g].cards :
            /\ ~games[g].cards[i].isMatched
            /\ ~IsFlipped(games[g], games[g].cards[i].id)

(* C2: every message the server has sent is either an error without card   *)
(* data or a GAME_STATE that shows no value of a card that is neither      *)
(* flipped nor matched in the session that was sent.                       *)
C2_SentIsSanitized ==
    \A ws \in Sockets :
        /\ lastSent[ws].type = "ERROR" =>
               DOMAIN lastSent[ws] = {"type", "message"}
        /\ lastSent[ws].type = "GAME_STATE" =>
            /\ lastSent[ws].gameId = sentFrom[ws].gameId
            /\ DOMAIN lastSent[ws].cards = DOMAIN sentFrom[ws].cards
            /\ \A i \in DOMAIN lastSent[ws].cards :
                LET entry == lastSent[ws].cards[i]
                    card == sentFrom[ws].cards[i]
                IN  /\ entry.id = card.id
                    /\ "value" \in DOMAIN entry =>
                           (card.isMatched \/ IsFlipped(sentFrom[ws], card.id))

\* a GAME_STATE sent after a flip: one card shown, the others hidden; and
\* one sent by the unlock timer
C2_Witness ==
    \E ws \in Sockets :
        /\ lastOp = "FLIP_CARD"
        /\ lastSent[ws].type = "GAME_STATE"
        /\ \E i \in DOMAIN lastSent[ws].cards :
               "value" \in DOMAIN lastSent[ws].cards[i]
        /\ \E i \in DOMAIN lastSent[ws].cards :
               "value" \notin DOMAIN lastSent[ws].cards[i]

(* C3: an illegal move (game not playing, board locked, unknown card,      *)
(* matched card, card already flipped, two cards flipped) is rejected by   *)
(* applyMove with a named error, and the FLIP_CARD handler leaves the      *)
(* registry as it was; the other applyMove ignores it with the session     *)
(* unchanged.                                                              *)
C3_IllegalMoveRejected ==
    \A g \in DOMAIN games : \A cardId \in MoveInputs(games[g]) :
        IllegalMove(games[g], cardId) =>
            /\ LET result == applyMove(games[g], cardId)
               IN  /\ "error" \in DOMAIN result
                   /\ result.error # ""
                   /\ "gameState" \notin DOMAIN result
            /\ applyMoveSilent(games[g], cardId).gameState = games[g]
            /\ \A ws \in Sockets :
                LET effect == FlipCardEffect(ws, g, cardId)
                IN  /\ effect.games = games
                    /\ effect.timers = timers
                    /\ wsOpen[ws] => effect.lastSent[ws].type = "ERROR"

\* a flip of the card that is already flipped has just been rejected
C3_Witness ==
    \E ws \in Sockets, g \in DOMAIN games :
        /\ lastOp = "FLIP_CARD"
        /\ lastSent[ws] = [type |-> "ERROR", message |-> "Card is already flipped."]
        /\ Len(games[g].flippedCardIds) = 1
        /\ ~games[g].lockBoard

(* C4: while a board is locked and its unlock timer is pending, a          *)
(* FLIP_CARD for any card id is answered with an error, leaves the         *)
(* registry unchanged and arms no timer; nothing is kept for later.        *)
C4_LockedFlipRejected ==
    \A g \in DOMAIN games :
        (games[g].lockBoard /\ \E k \in DOMAIN timers : timers[k].gameId = g) =>
            \A ws \in Sockets : \A cardId \in MoveInputs(games[g]) \cup {0} :
                LET effect == FlipCardEffect(ws, g, cardId)
                IN  /\ effect.games = games
                    /\ effect.timers = timers
                    /\ ~effect.armed
                    /\ effect.sentFrom = sentFrom
                    /\ wsOpen[ws] => effect.lastSent[ws].type = "ERROR"

\* a flip has just been rejected on a locked board with its timer pending
C4_Witness ==
    \E ws \in Sockets, g \in DOMAIN games :
        /\ games[g].lockBoard
        /\ Len(timers) = 1 /\ timers[1].gameId = g
        /\ lastOp = "FLIP_CARD"
        /\ lastSent[ws] = [type |-> "ERROR", message |-> "You can only flip two cards."]

\* an accepted second flip on a card of the same / of another value
SecondFlip(gameState, cardId) ==
    /\ gameState.status = "playing"
    /\ ~gameState.lockBoard
    /\ Len(gameState.flippedCardIds) = 1
    /\ cardId \in CardIds(gameState)
    /\ ~CardOf(gameState, cardId).isMatched
    /\ cardId # gameState.flippedCardIds[1]

MatchingFlip(gameState, cardId) ==
    /\ SecondFlip(gameState, cardId)
    /\ CardOf(gameState, cardId).value
           = CardOf(gameState, gameState.flippedCardIds[1]).value

MismatchingFlip(gameState, cardId) ==
    /\ SecondFlip(gameState, cardId)
    /\ CardOf(gameState, cardId).value
           # CardOf(gameState, gameState.flippedCardIds[1]).value

\* what a match must leave behind
MatchPost(gameState, cardId, result) ==
    /\ "error" \notin DOMAIN result
    /\ result.needsDelayAction = FALSE
    /\ "delayMs" \notin DOMAIN result
    /\ LET next == result.gameState
           pair == {cardId, gameState.flippedCardIds[1]}
       IN  /\ DOMAIN next.cards = DOMAIN gameState.cards
           /\ \A i \in DOMAIN gameState.cards :
                /\ next.cards[i].id = gameState.cards[i].id
                /\ next.cards[i].value = gameState.cards[i].value
                /\ next.cards[i].isMatched =
                       (gameState.cards[i].isMatched
                            \/ gameState.cards[i].id \in pair)
           /\ DOMAIN next.players = DOMAIN gameState.players
           /\ \A i \in DOMAIN gameState.players :
                /\ next.players[i].id = gameState.players[i].id
                /\ next.players[i].color = gameState.players[i].color
                /\ next.players[i].score =
                       IF i - 1 = gameState.activePlayerIndex
                       THEN gameState.players[i].score + 1
                       ELSE gameState.players[i].score
           /\ next.flippedCardIds = <<>>
           /\ next.lockBoard = FALSE
           /\ next.activePlayerIndex = gameState.activePlayerIndex
           /\ next.gameId = gameState.gameId

\* what a mismatch must leave behind
MismatchPost(gameState, cardId, result) ==
    /\ "error" \notin DOMAIN result
    /\ result.needsDelayAction = TRUE
    /\ result.delayMs = 800
    /\ LET next == result.gameState
       IN  /\ next.lockBoard = TRUE
           /\ next.flippedCardIds = <<gameState.flippedCardIds[1], cardId>>
           /\ next.cards = gameState.cards
           /\ next.players = gameState.players
           /\ next.status = "playing"
           /\ next.gameId = gameState.gameId

(* C5: an accepted second flip on a card of the same value marks both      *)
(* cards matched, gives the active player exactly one point and no other   *)
(* player any, empties flippedCardIds, leaves lockBoard false and          *)
(* activePlayerIndex unchanged, and requests no delayed unlock; the        *)
(* handler arms no timer.  Both applyMove variants.                        *)
C5_MatchResolution ==
    \A g \in DOMAIN games : \A cardId \in MoveInputs(games[g]) :
        MatchingFlip(games[g], cardId) =>
            LET result == applyMove(games[g], cardId)
            IN  /\ MatchPost(games[g], cardId, result)
                /\ MatchPost(games[g], cardId, applyMoveSilent(games[g], cardId))
                /\ \A ws \in Sockets :
                    LET effect == FlipCardEffect(ws, g, cardId)
                    IN  /\ effect.timers = timers
                        /\ ~effect.armed
                        /\ effect.games[g] = result.gameState

\* a match has just been committed in a game of several players in which
\* the turn has passed on before
C5_Witness ==
    \E g \in DOMAIN games :
        /\ lastOp = "FLIP_CARD"
        /\ \E ws \in Sockets : lastSent[ws].type = "GAME_STATE"
        /\ games[g].flippedCardIds = <<>>
        /\ Len(games[g].players) >= 2
        /\ games[g].activePlayerIndex = 1
        /\ games[g].players[2].score >= 1

(* C6: an accepted second flip on a card of another value locks the board, *)
(* keeps both ids in flip order in flippedCardIds, changes no card, no     *)
(* score and not the status, and requests a delayed unlock after 800 ms;   *)
(* the handler arms exactly that timer.  Both applyMove variants.          *)
C6_MismatchResolution ==
    \A g \in DOMAIN games : \A cardId \in MoveInputs(games[g]) :
        MismatchingFlip(games[g], cardId) =>
            LET result == applyMove(games[g], cardId)
            IN  /\ MismatchPost(games[g], cardId, result)
                /\ MismatchPost(games[g], cardId, applyMoveSilent(games[g], cardId))
                /\ \A ws \in Sockets :
                    LET effect == FlipCardEffect(ws, g, cardId)
                    IN  /\ effect.armed
                        /\ effect.timers =
                               Append(timers,
                                      [gameId |-> g, ws |-> ws, delayMs |-> 800])
                        /\ effect.games[g] = result.gameState

\* a mismatch has just been committed: board locked, two cards shown, the
\* timer armed
C6_Witness ==
    \E g \in DOMAIN games :
        /\ lastOp = "FLIP_CARD"
        /\ \E ws \in Sockets : lastSent[ws].type = "GAME_STATE"
        /\ games[g].lockBoard
        /\ Len(games[g].flippedCardIds) = 2
        /\ Len(timers) = 1
        /\ timers[1] = [gameId |-> g, ws |-> "ws1", delayMs |-> 800]

(* C7: the unlock transition applied to a locked session empties           *)
(* flippedCardIds, clears lockBoard and advances activePlayerIndex to      *)
(* (current + 1) mod players.length, leaving cards, scores and status.     *)
(* Stated of unlockBoard, the unlock transition the timer callback runs.   *)
C7_UnlockAdvancesTurn ==
    \A g \in DOMAIN games :
        games[g].lockBoard =>
            LET unlocked == unlockBoard(games[g])
            IN  /\ unlocked.flippedCardIds = <<>>
                /\ unlocked.lockBoard = FALSE
                /\ unlocked.activePlayerIndex =
                       (games[g].activePlayerIndex + 1) % Len(games[g].players)
                /\ unlocked.cards = games[g].cards
                /\ unlocked.players = games[g].players
                /\ unlocked.status = games[g].status

\* the same statement holds of unlockBoardAfterNoMatch, which the server
\* does not call
C7_DeferredUnlockAdvancesTurn ==
    \A g \in DOMAIN games :
        games[g].lockBoard =>
            LET unlocked == unlockBoardAfterNoMatch(games[g])
            IN  /\ unlocked.flippedCardIds = <<>>
                /\ unlocked.lockBoard = FALSE
                /\ unlocked.activePlayerIndex =
                       (games[g].activePlayerIndex + 1) % Len(games[g].players)
                /\ unlocked.cards = games[g].cards
                /\ unlocked.players = games[g].players
                /\ unlocked.status = games[g].status

\* every card of the session is matched
EveryCardMatched(gameState) ==
    \A i \in DOMAIN gameState.cards : gameState.cards[i].isMatched

\* the number of cards that are not matched
Unmatched(gameState) ==
    Cardinality({i \in DOMAIN gameState.cards : ~gameState.cards[i].isMatched})

(* C8: a stored session has status won exactly when all its cards are      *)
(* matched, and the status goes from playing to won in exactly the         *)
(* transition, an accepted flip, that matches the last unmatched pair.     *)
C8_WonIffAllMatched ==
    /\ [](\A g \in DOMAIN games :
            games[g].status = "won" <=> EveryCardMatched(games[g]))
    /\ [][\A g \in DOMAIN games :
            /\ g \in DOMAIN games'
            /\ (games[g].status = "playing" /\ games'[g].status = "won") <=>
                   (Unmatched(games[g]) = 2 /\ Unmatched(games'[g]) = 0)
            /\ (games[g].status = "playing" /\ games'[g].status = "won") =>
                   lastOp' = "FLIP_CARD"
            /\ games'[g].status = "won" =>
                   games[g].status \in {"playing", "won"}]_vars

\* the last pair has just been matched
C8_Witness ==
    \E g \in DOMAIN games :
        /\ games[g].status = "won"
        /\ EveryCardMatched(games[g])
        /\ lastOp = "FLIP_CARD"
        /\ \E ws \in Sockets :
            lastSent[ws].type = "GAME_STATE" /\ lastSent[ws].status = "won"

(* C9: once a stored session is won, every FLIP_CARD for it is answered    *)
(* with an error, no event changes the stored session any more, and no     *)
(* unlock timer is pending for it.                                         *)
C9_WonIsTerminal ==
    /\ [](\A g \in DOMAIN games :
            games[g].status = "won" =>
                /\ \A k \in DOMAIN timers : timers[k].gameId # g
                /\ \A ws \in Sockets : \A cardId \in MoveInputs(games[g]) \cup {0} :
                    LET effect == FlipCardEffect(ws, g, cardId)
                    IN  /\ effect.games = games
                        /\ effect.timers = timers
                        /\ wsOpen[ws] => effect.lastSent[ws].type = "ERROR")
    /\ [][\A g \in DOMAIN games :
            games[g].status = "won" =>
                g \in DOMAIN games' /\ games'[g] = games[g]]_vars

\* a flip has just been rejected on a won game
C9_Witness ==
    \E g \in DOMAIN games, ws \in Sockets :
        /\ games[g].status = "won"
        /\ lastOp = "FLIP_CARD"
        /\ lastSent[ws] = [type |-> "ERROR", message |-> "Game is not active."]

\* what createGameState must return for this player count
FreshSession(gameState, playerCount) ==
    /\ Len(gameState.players) = playerCount
    /\ \A i \in DOMAIN gameState.players :
        /\ gameState.players[i].color = <<"red", "yellow", "blue", "green">>[i]
        /\ gameState.players[i].score = 0
    /\ \A i, k \in DOMAIN gameState.players :
        i # k => /\ gameState.players[i].color # gameState.players[k].color
                 /\ gameState.players[i].id # gameState.players[k].id
    /\ Len(gameState.cards) = 16
    /\ \A i \in DOMAIN gameState.cards : gameState.cards[i].isMatched = FALSE
    /\ \A i, k \in DOMAIN gameState.cards :
        i # k => gameState.cards[i].id # gameState.cards[k].id
    /\ Cardinality({gameState.cards[i].value : i \in DOMAIN gameState.cards}) = 8
    /\ \A i \in DOMAIN gameState.cards :
        Cardinality({k \in DOMAIN gameState.cards :
            gameState.cards[k].value = gameState.cards[i].value}) = 2
    /\ gameState.activePlayerIndex = 0
    /\ gameState.flippedCardIds = <<>>
    /\ gameState.lockBoard = FALSE
    /\ gameState.status = "playing"

(* C10: for every playerCount in 1..4 createGameState does not throw and   *)
(* returns playerCount players colored red, yellow, blue, green in that    *)
(* order with score 0, 16 unmatched cards with distinct ids that form 8    *)
(* values of two cards each, activePlayerIndex 0, no flipped card, an      *)
(* unlocked board and status playing; the session NEW_GAME stores is such  *)
(* a session.                                                              *)
C10_CreateGameState ==
    /\ DOMAIN games = {} =>
        \A playerCount \in 1..4, seed \in 0..MaxSeed :
            /\ ~CreateThrows(playerCount)
            /\ FreshSession(createGameState(playerCount, idCounter + 1, seed),
                            playerCount)
            /\ LET stored == createGame(playerCount, seed)
               IN  \A g \in DOMAIN stored :
                       /\ stored[g].gameId = g
                       /\ FreshSession(stored[g], playerCount)
    /\ \A ws \in Sockets :
        (lastOp = "NEW_GAME" /\ lastSent[ws].type = "GAME_STATE") =>
            /\ currentGameId[ws] \in DOMAIN games
            /\ FreshSession(games[currentGameId[ws]],
                            Len(games[currentGameId[ws]].players))
            /\ Len(games[currentGameId[ws]].players) \in 1..4

\* NEW_GAME has just stored a session of four players
C10_Witness ==
    \E g \in DOMAIN games, ws \in Sockets :
        /\ lastOp = "NEW_GAME"
        /\ lastSent[ws].type = "GAME_STATE"
        /\ lastSent[ws].gameId = g
        /\ Len(games[g].players) = 4

----------------------------------------------------------------------------
(* gameManager.js called directly: any sequence of createGame, updateGame  *)
(* and deleteGame.  lastOp records the call and what it returned.          *)

\* createGame calls made with a valid playerCount
MaxCreates == 1

\* how far outside 1 .. 4 the playerCount of a createGame call lies
MaxOutside == 2

CreateInputs == ((1 - MaxOutside)..0) \cup {1, 4} \cup (5..(4 + MaxOutside))

\* a replacement state that lacks most fields of a session
StubState(gameId) == [gameId |-> gameId, status |-> "won"]

\* the states handed to updateGame: a stub, and the stored session after
\* its first flip
UpdateInputs(gameId) ==
    {StubState(gameId)} \cup
        (IF HasGame(gameId) /\ "cards" \in DOMAIN games[gameId]
               /\ games[gameId].flippedCardIds = <<>>
         THEN {applyMove(games[gameId], games[gameId].cards[1].id).gameState}
         ELSE {})

RegistryInit ==
    /\ games = <<>>
    /\ idCounter = 0
    /\ timers = <<>>
    /\ wsOpen = [ws \in Sockets |-> TRUE]
    /\ currentGameId = [ws \in Sockets |-> 0]
    /\ lastSent = [ws \in Sockets |-> NoMessage]
    /\ sentFrom = [ws \in Sockets |-> NoState]
    /\ lastOp = [op |-> "init", gameId |-> 0]
    /\ misses = <<>>

\* createGame(playerCount): createGameState throws before games.set and
\* before any id is drawn when the count is out of range
RegistryCreate(playerCount, seed) ==
    /\ IF CreateThrows(playerCount)
       THEN /\ lastOp' = [op |-> "create", gameId |-> 0,
                          playerCount |-> playerCount, threw |-> TRUE]
            /\ UNCHANGED <<games, idCounter>>
       ELSE LET gameState == createGameState(playerCount, idCounter + 1, seed)
            IN  /\ idCounter < MaxCreates * IdsUsedByCreate(1)
                /\ games' = createGame(playerCount, seed)
                /\ idCounter' = idCounter + IdsUsedByCreate(playerCount)
                /\ lastOp' = [op |-> "create", gameId |-> gameState.gameId,
                              playerCount |-> playerCount, threw |-> FALSE,
                              returned |-> gameState]
    /\ UNCHANGED <<timers, wsOpen, currentGameId, lastSent, sentFrom, misses>>

\* updateGame(gameId, newState)
RegistryUpdate(gameId, newState) ==
    /\ games' = updateGame(gameId, newState)
    /\ lastOp' = [op |-> "update", gameId |-> gameId, newState |-> newState]
    /\ UNCHANGED <<idCounter, timers, wsOpen, currentGameId, lastSent,
                   sentFrom, misses>>

\* deleteGame(gameId): returns whether an entry was removed
RegistryDelete(gameId) ==
    /\ games' = deleteGame(gameId)
    /\ lastOp' = [op |-> "delete", gameId |-> gameId,
                  returned |-> HasGame(gameId)]
    /\ UNCHANGED <<idCounter, timers, wsOpen, currentGameId, lastSent,
                   sentFrom, misses>>

RegistryNext ==
    \/ \E playerCount \in CreateInputs : RegistryCreate(playerCount, 0)
    \/ \E gameId \in DOMAIN games \cup {UnknownId} :
           \E newState \in UpdateInputs(gameId) :
               RegistryUpdate(gameId, newState)
    \/ \E gameId \in DOMAIN games \cup {UnknownId} : RegistryDelete(gameId)

RegistrySpec == RegistryInit /\ [][RegistryNext]_vars

\* the ids a registry property ranges over
RegistryIds == 0..(idCounter + 1)

(* C11: createGame with a playerCount below 1 or above 4 throws, and the   *)
(* failed call stores nothing: the registry and the id supply are as       *)
(* before.                                                                 *)
C11_CreateOutOfRangeFails ==
    /\ [](lastOp.op = "create" =>
             (lastOp.threw <=> (lastOp.playerCount < 1 \/ lastOp.playerCount > 4)))
    /\ [][(lastOp'.op = "create" /\ lastOp'.threw) =>
             (games' = games /\ idCounter' = idCounter)]_vars

\* createGame(0) or createGame(5) has just thrown on a registry that holds
\* a session
C11_Witness ==
    /\ lastOp.op = "create"
    /\ lastOp.threw
    /\ lastOp.playerCount \in {0, 5}
    /\ games # <<>>

----------------------------------------------------------------------------
(* Several sessions at once: a connection starts one game after another    *)
(* and sends flips for any of them; the timers of the sessions interleave. *)

\* sessions that exist at once
MaxSessions == 2

\* a pair of the session is matched
HasMatch(gameState) ==
    \E i \in DOMAIN gameState.cards : gameState.cards[i].isMatched

\* NEW_GAME for two players while fewer than MaxSessions sessions exist
SessionsNewGame(ws) ==
    /\ Cardinality(DOMAIN games) < MaxSessions
    /\ NewGameHandler(ws, RawNumber(20), 0)

\* FLIP_CARD with the id of a card of the session; a session is played
\* until its first pair is matched
SessionsFlipCard(ws, gameId, cardId) ==
    /\ ~HasMatch(games[gameId])
    /\ cardId \in CardIds(games[gameId])
    /\ FlipCard(ws, gameId, cardId)

SessionsNext ==
    \/ \E ws \in Sockets : SessionsNewGame(ws)
    \/ \E ws \in Sockets, gameId \in DOMAIN games :
           \E cardId \in CardIdInputs(gameId) :
               SessionsFlipCard(ws, gameId, cardId)
    \/ UnlockTimer
    \/ \E ws \in Sockets : Close(ws)

SessionsSpec == Init /\ [][SessionsNext]_vars

\* every card id of every stored session, no id, an id that names no card
AnyCardId ==
    {0, UnknownId} \cup UNION {CardIds(games[g]) : g \in DOMAIN games}

(* C13: a FLIP_CARD that names session A, whatever card id it carries,     *)
(* leaves every other stored session as it is and adds or removes none;    *)
(* so does the firing of the unlock timer armed for A.                     *)
C13_SessionIsolation ==
    /\ [](\A ws \in Sockets, a \in GameIdInputs, cardId \in AnyCardId :
             LET effect == FlipCardEffect(ws, a, cardId)
             IN  /\ DOMAIN effect.games = DOMAIN games
                 /\ \A b \in DOMAIN games :
                        b # a => effect.games[b] = games[b])
    /\ [][(lastOp' = "unlock" /\ timers # <<>> /\ timers' = Tail(timers)) =>
             /\ DOMAIN games' = DOMAIN games
             /\ \A b \in DOMAIN games :
                    b # Head(timers).gameId => games'[b] = games[b]]_vars

\* the timer of one session has just fired while the board of another
\* session is locked with its timer pending and a flip was accepted in both
C13_Witness ==
    /\ lastOp = "unlock"
    /\ Len(timers) = 1
    /\ \E a \in DOMAIN games, b \in DOMAIN games :
        /\ a # b
        /\ timers[1].gameId = b
        /\ games[b].lockBoard
        /\ ~games[a].lockBoard
        /\ misses[a] = 1

----------------------------------------------------------------------------
(* The NEW_GAME validator *)

\* the raw value is an integer of 1 .. 4: a number without a fraction, or
\* the one-digit numeral of one
DenotesSeatCount(v) ==
    \/ v.t = "number" /\ v.tenths \in {10, 20, 30, 40}
    \/ v.t = "string" /\ Len(v.chars) = 1 /\ v.chars[1] \in {"1", "2", "3", "4"}

\* the integer such a raw value denotes
SeatCount(v) ==
    IF v.t = "number" THEN v.tenths \div 10
    ELSE CHOOSE n \in 1..4 : Digits[n + 1] = v.chars[1]

(* C14: validateNewGame accepts a playerCount only if it is an integer     *)
(* of 1 .. 4 and returns that integer; otherwise it returns a failure      *)
(* with an error text.  Stated of the NEW_GAME requests an open           *)
(* connection can send.                                                    *)
C14_AcceptsOnlyIntegerSeatCounts ==
    \A ws \in Sockets, playerCount \in PlayerCountInputs :
        wsOpen[ws] =>
            LET validation == validateNewGame(playerCount)
            IN  IF DenotesSeatCount(playerCount)
                THEN /\ validation.valid
                     /\ validation.playerCount = SeatCount(playerCount)
                ELSE ~validation.valid /\ validation.error # ""

(* C14, the part the validator keeps: an accepted request carries an       *)
(* integer of 1 .. 4 to createGame, a rejected one has an error text, and  *)
(* a NEW_GAME answered with an error stores nothing and draws no id.       *)
C14_RejectedNewGameStoresNothing ==
    /\ [](\A playerCount \in PlayerCountInputs :
             LET validation == validateNewGame(playerCount)
             IN  IF validation.valid
                 THEN validation.playerCount \in 1..4
                 ELSE validation.error # "")
    /\ [][(lastOp' = "NEW_GAME"
              /\ \E ws \in Sockets : lastSent'[ws].type = "ERROR") =>
             (games' = games /\ idCounter' = idCounter /\ timers' = timers)]_vars

----------------------------------------------------------------------------
(* C15: a FLIP_CARD whose gameId is missing, whose cardId is missing or    *)
(* whose gameId names no stored session is answered with the error of      *)
(* that case ("Missing gameId", "Missing cardId", "Game not found") and    *)
(* changes nothing else: no session is created or changed, no id is drawn  *)
(* and no timer is armed.                                                  *)
C15_MalformedFlipRejected ==
    /\ [](\A ws \in Sockets, gameId \in GameIdInputs, cardId \in AnyCardId :
             (wsOpen[ws] /\ (gameId = 0 \/ cardId = 0 \/ gameId \notin DOMAIN games))
             => LET effect == FlipCardEffect(ws, gameId, cardId)
                IN  /\ effect.games = games
                    /\ effect.timers = timers
                    /\ ~effect.armed
                    /\ effect.sentFrom = sentFrom
                    /\ effect.lastSent[ws] =
                           ErrorMessage(IF gameId = 0 THEN "Missing gameId"
                                        ELSE IF cardId = 0 THEN "Missing cardId"
                                        ELSE "Game not found"))
    /\ [][lastOp' = "FLIP_CARD" =>
             (idCounter' = idCounter /\ DOMAIN games' = DOMAIN games)]_vars

\* a flip for an unknown gameId has just been rejected while a session
\* with a flipped card is stored
C15_Witness ==
    /\ lastOp = "FLIP_CARD"
    /\ \E ws \in Sockets : lastSent[ws] = ErrorMessage("Game not found")
    /\ \E g \in DOMAIN games : Len(games[g].flippedCardIds) = 1
    /\ timers = <<>>

----------------------------------------------------------------------------
(* shuffle.js called directly on short arrays, under every outcome of the  *)
(* random source.  lastOp records the call and what it returned.           *)

\* longest array passed to shuffle
MaxLen == 3

ShuffleValues == {"a", "b", "c", "d"}

\* all arrays over ShuffleValues of length 0 .. MaxLen
ShuffleInputs == UNION {[1..n -> ShuffleValues] : n \in 0..MaxLen}

\* draws taken from the whole array in every iteration: Math.random() * n
AllDrawsWholeArray(n) == [1..(n - 1) -> 0..(n - 1)]

\* every outcome of the draws of one call on n elements: in the iteration
\* with loop variable i, Math.floor(Math.random() * (i + 1)) is in 0 .. i
AllDraws(n) ==
    {rnd \in [1..(n - 1) -> 0..(n - 1)] : \A i \in 1..(n - 1) : rnd[i] <= i}

ShuffleInit ==
    /\ games = <<>>
    /\ idCounter = 0
    /\ timers = <<>>
    /\ wsOpen = [ws \in Sockets |-> TRUE]
    /\ currentGameId = [ws \in Sockets |-> 0]
    /\ lastSent = [ws \in Sockets |-> NoMessage]
    /\ sentFrom = [ws \in Sockets |-> NoState]
    /\ lastOp = [op |-> "init"]
    /\ misses = <<>>

\* shuffle(array) with the draws rnd.  shuffle keeps nothing between calls
\* (it works on a copy), so a behaviour makes one call
ShuffleCall(array, rnd) ==
    /\ lastOp.op = "init"
    /\ lastOp' = [op |-> "shuffle", array |-> array, rnd |-> rnd,
                  call |-> shuffleCall(array, rnd)]
    /\ UNCHANGED <<games, idCounter, timers, wsOpen, currentGameId, lastSent,
                   sentFrom, misses>>

ShuffleNext ==
    \E array \in ShuffleInputs : \E rnd \in AllDraws(Len(array)) :
        ShuffleCall(array, rnd)

ShuffleSpec == ShuffleInit /\ [][ShuffleNext]_vars

\* number of positions of a sequence that hold v
Occurrences(seq, v) == Cardinality({i \in DOMAIN seq : seq[i] = v})

(* C16: for every array and every outcome of the draws, shuffle returns an *)
(* array of the same length with the same number of occurrences of every   *)
(* value, the array passed in is as it was, and an array of at most one    *)
(* element comes back unchanged.                                           *)
C16_ShuffleIsPermutation ==
    lastOp.op = "shuffle" =>
        /\ Len(lastOp.call.returned) = Len(lastOp.array)
        /\ \A v \in ShuffleValues :
               Occurrences(lastOp.call.returned, v) = Occurrences(lastOp.array, v)
        /\ lastOp.call.array = lastOp.array
        /\ Len(lastOp.array) <= 1 => lastOp.call.returned = lastOp.array

\* a call on three different values that returned them in another order
C16_Witness ==
    /\ lastOp.op = "shuffle"
    /\ Len(lastOp.array) = 3
    /\ Cardinality(Range(lastOp.array)) = 3
    /\ lastOp.call.returned # lastOp.array
    /\ lastOp.call.returned[1] = lastOp.array[3]

----------------------------------------------------------------------------
(* The server with its timers firing: a callback passed to setTimeout is   *)
(* run by the event loop once its delay has passed.                        *)

LiveSpec == Spec /\ WF_vars(UnlockTimer)

\* the gameId of the session a connection starts first
FirstGameIds == {IdsUsedByCreate(playerCount) : playerCount \in 1..4}

(* C17: whenever the stored session has lockBoard set then, with the timer *)
(* firing, the stored session eventually has lockBoard false and no        *)
(* flipped card, whether the connection is open or closed by then.         *)
C17_LockedEventuallyUnlocked ==
    \A g \in FirstGameIds :
        (g \in DOMAIN games /\ games[g].lockBoard)
            ~> (g \in DOMAIN games /\ ~games[g].lockBoard
                    /\ games[g].flippedCardIds = <<>>)

\* the timer has just fired after the connection was closed and flipped
\* the two cards back
C17_Witness ==
    /\ lastOp = "unlock"
    /\ \A ws \in Sockets : ~wsOpen[ws]
    /\ timers = <<>>
    /\ \E g \in DOMAIN games :
        /\ misses[g] = 1
        /\ ~games[g].lockBoard
        /\ games[g].flippedCardIds = <<>>

----------------------------------------------------------------------------
(* C18: activePlayerIndex changes only in the unlock transition: every     *)
(* applyMove outcome (first flip, match, mismatch) leaves it as it is, and *)
(* a step that changes the stored activePlayerIndex is the firing of the   *)
(* unlock timer.  Stated of the applyMove and the handlers of the server.  *)
C18_TurnChangesOnlyAtUnlock ==
    /\ [](\A g \in DOMAIN games : \A cardId \in MoveInputs(games[g]) :
             LET result == applyMove(games[g], cardId)
             IN  "gameState" \in DOMAIN result =>
                     result.gameState.activePlayerIndex
                         = games[g].activePlayerIndex)
    /\ [][\A g \in DOMAIN games :
             (g \in DOMAIN games'
                 /\ games'[g].activePlayerIndex # games[g].activePlayerIndex)
             => lastOp' = "unlock"]_vars

(* C18 of the other applyMove and unlockBoardAfterNoMatch: no outcome of   *)
(* that applyMove changes activePlayerIndex, and the unlock of a locked    *)
(* session advances it by one.                                             *)
C18_DeferredVariantKeepsTurn ==
    \A g \in DOMAIN games : \A cardId \in MoveInputs(games[g]) :
        LET result == applyMoveSilent(games[g], cardId)
        IN  /\ result.gameState.activePlayerIndex = games[g].activePlayerIndex
            /\ (MismatchingFlip(games[g], cardId) =>
                   unlockBoardAfterNoMatch(result.gameState).activePlayerIndex
                       = (games[g].activePlayerIndex + 1)
                             % Len(games[g].players))

----------------------------------------------------------------------------
\* a timer is pending for the session
TimerPending(g) == \E k \in DOMAIN timers : timers[k].gameId = g

\* this step is the firing of the timer armed for the session
TimerFires(g) ==
    /\ timers # <<>>
    /\ Head(timers).gameId = g
    /\ timers' = Tail(timers)
    /\ lastOp' = "unlock"

(* C19: while the timer armed by a mismatch is pending, the stored session *)
(* is the locked one that mismatch committed: one timer per session, no    *)
(* FLIP_CARD for it is committed, and no step but the firing of its timer  *)
(* changes it; the firing replaces the session stored at that moment by    *)
(* the same session with flippedCardIds empty and lockBoard false.         *)
C19_UnlockSeesCommittedMismatch ==
    /\ [](\A g \in DOMAIN games :
             TimerPending(g) =>
                 /\ Cardinality({k \in DOMAIN timers : timers[k].gameId = g}) = 1
                 /\ games[g].lockBoard
                 /\ Len(games[g].flippedCardIds) = 2
                 /\ \A ws \in Sockets : \A cardId \in AnyCardId :
                        FlipCardEffect(ws, g, cardId).games[g] = games[g])
    /\ [][\A g \in DOMAIN games :
             /\ (TimerPending(g) /\ ~TimerFires(g)) =>
                    (g \in DOMAIN games' /\ games'[g] = games[g])
             /\ TimerFires(g) =>
                    /\ g \in DOMAIN games'
                    /\ games'[g] = [games[g] EXCEPT !.flippedCardIds = <<>>,
                                                    !.lockBoard = FALSE]
             /\ (~TimerPending(g) /\ TimerPending(g)') =>
                    (games'[g].lockBoard /\ Len(games'[g].flippedCardIds) = 2)]_vars

\* a flip for a locked session has just been rejected while its timer is
\* pending behind the timer of another session
C19_Witness ==
    /\ lastOp = "FLIP_CARD"
    /\ \E ws \in Sockets :
           lastSent[ws] = ErrorMessage("You can only flip two cards.")
    /\ Len(timers) = 2
    /\ timers[1].gameId # timers[2].gameId
    /\ \A k \in DOMAIN timers : games[timers[k].gameId].lockBoard

----------------------------------------------------------------------------
(* C20: in every stored session flippedCardIds holds at most two ids, no   *)
(* id twice, and every id in it is the id of a card of the session that    *)
(* is not matched.                                                         *)
C20_FlippedIdsWellFormed ==
    \A g \in DOMAIN games :
        LET flipped == games[g].flippedCardIds
        IN  /\ Len(flipped) \in {0, 1, 2}
            /\ \A i \in DOMAIN flipped : \A k \in DOMAIN flipped :
                   flipped[i] = flipped[k] => i = k
            /\ \A i \in DOMAIN flipped :
                   \E c \in DOMAIN games[g].cards :
                       /\ games[g].cards[c].id = flipped[i]
                       /\ ~games[g].cards[c].isMatched

\* a session with matched pairs and two mismatched cards shown
C20_Witness ==
    \E g \in DOMAIN games :
        /\ Len(games[g].flippedCardIds) = 2
        /\ games[g].lockBoard
        /\ \E c \in DOMAIN games[g].cards : games[g].cards[c].isMatched

----------------------------------------------------------------------------
(* The lock, the flipped cards and the status of a session                 *)

\* the (lockBoard, flipped count, status) of a session
Phase(gameState) ==
    <<gameState.lockBoard, Len(gameState.flippedCardIds), gameState.status>>

Phases ==
    {<<FALSE, 0, "playing">>, <<FALSE, 1, "playing">>,
     <<TRUE, 2, "playing">>, <<FALSE, 0, "won">>}

\* the two flipped cards of a session carry different values
FlippedDiffer(gameState) ==
    /\ Len(gameState.flippedCardIds) = 2
    /\ CardOf(gameState, gameState.flippedCardIds[1]).value
           # CardOf(gameState, gameState.flippedCardIds[2]).value

PhaseOK(gameState) ==
    /\ Phase(gameState) \in Phases
    /\ gameState.lockBoard => FlippedDiffer(gameState)

(* C21: in every stored session (lockBoard, flipped count, status) is one  *)
(* of (false,0,playing), (false,1,playing), (true,2,playing),              *)
(* (false,0,won): the board is locked only with two flipped cards of       *)
(* different values, and two flipped cards always come with the lock.  The *)
(* silent variant of applyMove and its unlock keep a stored session in     *)
(* these phases as well.                                                   *)
C21_LockPhase ==
    \A g \in DOMAIN games :
        /\ PhaseOK(games[g])
        /\ \A cardId \in MoveInputs(games[g]) :
               PhaseOK(applyMoveSilent(games[g], cardId).gameState)
        /\ games[g].lockBoard => PhaseOK(unlockBoardAfterNoMatch(games[g]))

\* all four phases are stored at some time; here the locked one, next to a
\* matched pair
C21_Witness ==
    \E g \in DOMAIN games :
        /\ Phase(games[g]) = <<TRUE, 2, "playing">>
        /\ FlippedDiffer(games[g])
        /\ Unmatched(games[g]) < Len(games[g].cards)

----------------------------------------------------------------------------
(* Long games: one session for every player count, played with matches and *)
(* mismatches in board order, so that the turn goes round the table        *)

MaxTurns == 5

\* the first face-down card in board order whose value differs from the
\* flipped one
FirstOther(gameState) ==
    LET others == {i \in FaceDown(gameState) :
                      \A k \in DOMAIN gameState.flippedCardIds :
                          CardOf(gameState, gameState.flippedCardIds[k]).value
                              # gameState.cards[i].value}
    IN  {gameState.cards[i].id : i \in
            {i \in others : \A k \in others : i <= k}}

\* the cards a long game flips: the first face-down card, then its partner
\* or the first card of another value; a card that is already matched
TurnsCardInputs(gameId) ==
    (IF games[gameId].flippedCardIds = <<>>
     THEN OpeningCard(games[gameId])
     ELSE Partners(games[gameId]) \cup FirstOther(games[gameId]))
        \cup FirstMatched(games[gameId])

\* NEW_GAME with a player count of 1 to 4
TurnsNewGame(ws, playerCount, seed) ==
    /\ currentGameId[ws] = 0
    /\ NewGameHandler(ws, RawNumber(10 * playerCount), seed)

TurnsNext ==
    \/ \E ws \in Sockets, playerCount \in 1..4, seed \in 0..MaxSeed :
           TurnsNewGame(ws, playerCount, seed)
    \/ \E ws \in Sockets, gameId \in DOMAIN games :
           \E cardId \in TurnsCardInputs(gameId) :
               FlipCardWithin(ws, gameId, cardId, MaxTurns)
    \/ UnlockTimer
    \/ \E ws \in Sockets : Close(ws)

TurnsSpec == Init /\ [][TurnsNext]_vars

(* C22: in every stored session activePlayerIndex is an integer from 0 to  *)
(* players.length - 1, whatever the player count and however often the     *)
(* turn has passed, wrap-around included; the unlock of the other variant  *)
(* leaves it in that range as well.                                        *)
C22_ActivePlayerInRange ==
    \A g \in DOMAIN games :
        /\ games[g].activePlayerIndex \in 0..(Len(games[g].players) - 1)
        /\ Len(games[g].players) \in 1..4
        /\ unlockBoardAfterNoMatch(games[g]).activePlayerIndex
               \in 0..(Len(games[g].players) - 1)

\* the turn has gone round a table of four and is back at the first seat
C22_Witness ==
    \E g \in DOMAIN games :
        /\ Len(games[g].players) = 4
        /\ misses[g] = 4
        /\ games[g].activePlayerIndex = 0
        /\ ~games[g].lockBoard

----------------------------------------------------------------------------
(* Scores *)

RECURSIVE ScoreSumFrom(_, _)
ScoreSumFrom(players, i) ==
    IF i > Len(players) THEN 0
    ELSE players[i].score + ScoreSumFrom(players, i + 1)

\* the sum of all players' scores
ScoreSum(gameState) == ScoreSumFrom(gameState.players, 1)

\* the number of pairs on the board
PairCount == Len(cardValues)

(* C23: in every stored session the scores sum to at most 8, the number of *)
(* pairs, and in every transition each player's score stays or grows by    *)
(* exactly 1.                                                              *)
C23_ScoresBoundedMonotone ==
    /\ [](\A g \in DOMAIN games : ScoreSum(games[g]) <= PairCount)
    /\ [][\A g \in DOMAIN games :
              \A i \in DOMAIN games[g].players :
                  /\ games'[g].players[i].score >= games[g].players[i].score
                  /\ games'[g].players[i].score <= games[g].players[i].score + 1
         ]_vars

\* a finished game of several players in which two of them scored
C23_Witness ==
    \E g \in DOMAIN games :
        /\ games[g].status = "won"
        /\ ScoreSum(games[g]) = PairCount
        /\ \E i, k \in DOMAIN games[g].players :
               /\ i # k
               /\ games[g].players[i].score > 0
               /\ games[g].players[k].score > 0

----------------------------------------------------------------------------
(* Cards *)

\* the positions of the cards that carry a value
Carriers(gameState, value) ==
    {i \in DOMAIN gameState.cards : gameState.cards[i].value = value}

(* C24: every value of a stored session is carried by exactly two cards    *)
(* and no card carries another value; in every transition each card keeps  *)
(* its id and its value, and a matched card stays matched.                 *)
C24_CardsStable ==
    /\ [](\A g \in DOMAIN games :
             /\ \A k \in DOMAIN cardValues :
                    Cardinality(Carriers(games[g], cardValues[k])) = 2
             /\ Len(games[g].cards) = 2 * Len(cardValues))
    /\ [][\A g \in DOMAIN games :
              /\ DOMAIN games'[g].cards = DOMAIN games[g].cards
              /\ \A i \in DOMAIN games[g].cards :
                     /\ games'[g].cards[i].id = games[g].cards[i].id
                     /\ games'[g].cards[i].value = games[g].cards[i].value
                     /\ games[g].cards[i].isMatched
                            => games'[g].cards[i].isMatched
         ]_vars

\* a second pair was matched after the first, which is still matched
C24_Witness ==
    \E g \in DOMAIN games :
        /\ Unmatched(games[g]) = Len(games[g].cards) - 4
        /\ Len(games[g].flippedCardIds) = 1

----------------------------------------------------------------------------
(* The first flip of a turn *)

\* what a first flip returns: the session with the card as its only flipped
\* one, and no delayed action
FirstFlipPost(gameState, cardId, result) ==
    /\ DOMAIN result = {"gameState", "needsDelayAction"}
    /\ result.gameState = [gameState EXCEPT !.flippedCardIds = <<cardId>>]
    /\ result.needsDelayAction = FALSE

(* C25: a flip that applyMove accepts on a session with no flipped card    *)
(* returns the session with flippedCardIds = [cardId] and everything else  *)
(* (cards, players, scores, activePlayerIndex, lockBoard, status) as it    *)
(* was, and requests no delayed unlock; the handler arms no timer.  Both   *)
(* applyMove variants.                                                     *)
C25_FirstFlipFrame ==
    \A g \in DOMAIN games : \A cardId \in MoveInputs(games[g]) :
        games[g].flippedCardIds = <<>> =>
            /\ LET result == applyMove(games[g], cardId)
               IN  ~HasError(result) =>
                       /\ FirstFlipPost(games[g], cardId, result)
                       /\ \A ws \in Sockets :
                              LET effect == FlipCardEffect(ws, g, cardId)
                              IN  /\ ~effect.armed
                                  /\ effect.timers = timers
                                  /\ effect.games[g] = result.gameState
            /\ LET silent == applyMoveSilent(games[g], cardId)
               IN  ~IsIgnored(silent) =>
                       FirstFlipPost(games[g], cardId, silent)

\* a first flip has just been accepted in a game with a matched pair
C25_Witness ==
    \E ws \in Sockets, g \in DOMAIN games :
        /\ lastOp = "FLIP_CARD"
        /\ lastSent[ws].type = "GAME_STATE"
        /\ Len(games[g].flippedCardIds) = 1
        /\ Unmatched(games[g]) < Len(games[g].cards)
        /\ timers = <<>>

----------------------------------------------------------------------------
(* Uniformity of the shuffle *)

RECURSIVE Factorial(_)
Factorial(n) == IF n <= 1 THEN 1 ELSE n * Factorial(n - 1)

\* the elements of the array are all different
Distinct(array) == Cardinality(Range(array)) = Len(array)

\* the orders the elements of an array of different elements can be put in
Orders(array) ==
    {order \in [DOMAIN array -> Range(array)] : Distinct(order)}

(* C26: on an array of N different elements the N! permutations and the    *)
(* sequences of draws j in 0..i, i = N-1 down to 1, correspond one to one: *)
(* there are N! sequences of draws, no other sequence returns what the     *)
(* call returned, and every order of the elements is returned by some      *)
(* sequence.  With every sequence equally likely every permutation is.     *)
C26_ShuffleUniform ==
    (lastOp.op = "shuffle" /\ Distinct(lastOp.array)) =>
        LET n == Len(lastOp.array)
        IN  /\ Cardinality(AllDraws(n)) = Factorial(n)
            /\ Cardinality(Orders(lastOp.array)) = Factorial(n)
            /\ lastOp.rnd \in AllDraws(n)
            /\ \A rnd \in AllDraws(n) :
                   shuffle(lastOp.array, rnd) = lastOp.call.returned
                       => rnd = lastOp.rnd
            /\ \A order \in Orders(lastOp.array) :
                   \E rnd \in AllDraws(n) : shuffle(lastOp.array, rnd) = order

\* a call on three different values that returned them in the order given
C26_Witness ==
    /\ lastOp.op = "shuffle"
    /\ Len(lastOp.array) = 3
    /\ Distinct(lastOp.array)
    /\ lastOp.call.returned = lastOp.array

----------------------------------------------------------------------------
(* Completing a game *)

\* how far a session is from won: three steps for every unmatched pair
\* (first flip, matching flip), one more while the board is locked, one
\* less once the first card of a turn is flipped
Rank(gameState) ==
    3 * (Unmatched(gameState) \div 2)
        + (IF gameState.lockBoard THEN 1
           ELSE IF Len(gameState.flippedCardIds) = 1 THEN -1
           ELSE 0)

\* a flip the server accepts for the session, arming no timer, that brings
\* it nearer to won
HelpfulFlip(g, cardId) ==
    LET result == applyMove(games[g], cardId)
    IN  /\ ~HasError(result)
        /\ Rank(result.gameState) < Rank(games[g])
        /\ cardId \in CardIdInputs(g)
        /\ \A ws \in Sockets :
               LET effect == FlipCardEffect(ws, g, cardId)
               IN  /\ effect.games[g] = result.gameState
                   /\ ~effect.armed

\* the unlock timer of the session is pending and its firing brings the
\* session nearer to won
HelpfulUnlock(g) ==
    /\ TimerPending(g)
    /\ Rank(unlockBoard(games[g])) < Rank(games[g])

(* C27: the game can always be completed.  Every stored session with       *)
(* status playing has a next step towards won: its unlock timer is pending *)
(* and fires into a session nearer to won, or some flip is accepted and    *)
(* leads to a session nearer to won; the distance is 0 exactly in a won    *)
(* session.  So a finite sequence of accepted flips and timer firings      *)
(* leads from every playing session to won, and none is stuck.             *)
C27_CanAlwaysComplete ==
    \A g \in DOMAIN games :
        /\ Rank(games[g]) >= 0
        /\ Rank(games[g]) = 0 <=> games[g].status = "won"
        /\ games[g].status = "playing" =>
               \/ HelpfulUnlock(g)
               \/ \E cardId \in CardIds(games[g]) : HelpfulFlip(g, cardId)
        /\ (games[g].status = "playing" /\ ~TimerPending(g)) =>
               \E cardId \in CardIds(games[g]) :
                   ~HasError(applyMove(games[g], cardId))

\* a game was completed by flips and the firing of an unlock timer
C27_Witness ==
    \E g \in DOMAIN games :
        /\ games[g].status = "won"
        /\ Rank(games[g]) = 0
        /\ misses[g] >= 1
        /\ timers = <<>>

----------------------------------------------------------------------------
(* The lock and its timer *)

\* the number of unlock timers pending for a session
TimerCount(g) == Cardinality({k \in DOMAIN timers : timers[k].gameId = g})

(* C28: a stored session is locked exactly while one unlock timer is       *)
(* pending for it, and never has two; a step arms a timer for a session    *)
(* exactly when it stores the session locked after it was unlocked; and a  *)
(* timer fires only on a stored session that is locked with two flipped    *)
(* cards.                                                                  *)
C28_LockedIffOneTimer ==
    /\ [](/\ \A g \in DOMAIN games :
                TimerCount(g) = IF games[g].lockBoard THEN 1 ELSE 0
          /\ \A k \in DOMAIN timers : timers[k].gameId \in DOMAIN games)
    /\ [][\A g \in DOMAIN games :
             /\ (TimerCount(g)' > TimerCount(g))
                    <=> (~games[g].lockBoard /\ games'[g].lockBoard)
             /\ TimerFires(g) =>
                    /\ games[g].lockBoard
                    /\ Len(games[g].flippedCardIds) = 2
                    /\ ~games'[g].lockBoard
                    /\ games'[g].activePlayerIndex = games[g].activePlayerIndex
         ]_vars

\* a game is locked for the second time, with one timer pending
C28_Witness ==
    \E g \in DOMAIN games :
        /\ misses[g] = 2
        /\ games[g].lockBoard
        /\ TimerCount(g) = 1
        /\ lastOp = "FLIP_CARD"

----------------------------------------------------------------------------
(* Points and pairs *)

\* the number of matched cards
MatchedCards(gameState) ==
    Cardinality({i \in DOMAIN gameState.cards : gameState.cards[i].isMatched})

\* one point for every matched pair, all of them exactly in a won session
PointsArePairs(gameState) ==
    /\ 2 * ScoreSum(gameState) = MatchedCards(gameState)
    /\ ScoreSum(gameState) = PairCount <=> gameState.status = "won"

(* C29: in every stored session the scores sum to the number of matched    *)
(* cards divided by 2, and to 8 exactly when the status is won; a flip     *)
(* resolved by the other applyMove leaves a stored session that way too.   *)
C29_ScoreSumIsMatchedPairs ==
    \A g \in DOMAIN games :
        /\ PointsArePairs(games[g])
        /\ \A cardId \in CardIds(games[g]) :
               PointsArePairs(applyMoveSilent(games[g], cardId).gameState)

\* a game of several players in progress: three pairs matched, by two of
\* the players
C29_Witness ==
    \E g \in DOMAIN games :
        /\ games[g].status = "playing"
        /\ MatchedCards(games[g]) = 6
        /\ ScoreSum(games[g]) = 3
        /\ \E i, k \in DOMAIN games[g].players :
               /\ i # k
               /\ games[g].players[i].score > 0
               /\ games[g].players[k].score > 0

----------------------------------------------------------------------------
(* C30: in every stored session the two cards that carry a value have the  *)
(* same isMatched flag, so the number of matched cards is even; no step    *)
(* marks a card without its partner.                                       *)
C30_PairsMatchTogether ==
    \A g \in DOMAIN games :
        /\ \A i, k \in DOMAIN games[g].cards :
               games[g].cards[i].value = games[g].cards[k].value
                   => games[g].cards[i].isMatched = games[g].cards[k].isMatched
        /\ MatchedCards(games[g]) % 2 = 0

\* a board with one pair matched is locked on two cards of other values
C30_Witness ==
    \E g \in DOMAIN games :
        /\ MatchedCards(games[g]) = 2
        /\ games[g].lockBoard
        /\ \A k \in DOMAIN games[g].flippedCardIds :
               ~CardOf(games[g], games[g].flippedCardIds[k]).isMatched

----------------------------------------------------------------------------
(* The two resolvers on a miss *)

(* C31: for every stored unlocked session with one flipped card and every  *)
(* mismatching second flip, the mismatch followed by the unlock leaves the *)
(* same session under the deferred variant (applyMove, then                *)
(* unlockBoardAfterNoMatch) and under the immediate variant (applyMove,    *)
(* then unlockBoard); both request the same delayed unlock, and the two    *)
(* locked sessions in between are equal but for activePlayerIndex.         *)
C31_VariantsAgreeOnMiss ==
    \A g \in DOMAIN games : \A cardId \in CardIds(games[g]) :
        MismatchingFlip(games[g], cardId) =>
            LET deferred == applyMoveSilent(games[g], cardId)
                immediate == applyMove(games[g], cardId)
            IN  /\ ~IsIgnored(deferred)
                /\ ~HasError(immediate)
                /\ unlockBoardAfterNoMatch(deferred.gameState)
                       = unlockBoard(immediate.gameState)
                /\ deferred.needsDelayAction = immediate.needsDelayAction
                /\ deferred.delayMs = immediate.delayMs
                /\ [immediate.gameState EXCEPT !.activePlayerIndex =
                        deferred.gameState.activePlayerIndex]
                       = deferred.gameState
                /\ deferred.gameState.activePlayerIndex
                       = games[g].activePlayerIndex
                /\ (immediate.gameState # deferred.gameState)
                       <=> Len(games[g].players) > 1

\* the last player of a table of several has flipped a first card; a miss
\* passes the turn back to the first player
C31_Witness ==
    \E g \in DOMAIN games :
        /\ Len(games[g].players) >= 3
        /\ games[g].activePlayerIndex = Len(games[g].players) - 1
        /\ Len(games[g].flippedCardIds) = 1
        /\ ~games[g].lockBoard
        /\ \E cardId \in CardIds(games[g]) : MismatchingFlip(games[g], cardId)

----------------------------------------------------------------------------
(* Sessions that are deleted: the server with gameManager.deleteGame       *)
(* called on stored sessions at any time, a pending unlock timer or not    *)

\* ids of sessions that are gone and that a timer or a connection still
\* holds
HeldIds ==
    ({timers[k].gameId : k \in DOMAIN timers}
        \cup {currentGameId[ws] : ws \in Sockets}) \ (DOMAIN games \cup {0})

\* NEW_GAME for two players; a second session is created, no third
DeletionNewGame(ws) ==
    /\ idCounter <= IdsUsedByCreate(2)
    /\ NewGameHandler(ws, RawNumber(20), 0)

\* FLIP_CARD for a stored session, played until its first pair is matched
DeletionFlipCard(ws, gameId, cardId) ==
    /\ ~HasMatch(games[gameId])
    /\ FlipCard(ws, gameId, cardId)

\* gameManager.deleteGame(gameId) on a stored session
DeleteGame(gameId) ==
    /\ HasGame(gameId)
    /\ games' = deleteGame(gameId)
    /\ misses' = [g \in DOMAIN misses \ {gameId} |-> misses[g]]
    /\ lastOp' = "delete"
    /\ UNCHANGED <<idCounter, timers, wsOpen, currentGameId, lastSent,
                   sentFrom>>

DeletionNext ==
    \/ \E ws \in Sockets : DeletionNewGame(ws)
    \/ \E ws \in Sockets, gameId \in DOMAIN games :
           \E cardId \in CardIdInputs(gameId) :
               DeletionFlipCard(ws, gameId, cardId)
    \/ \E ws \in Sockets, gameId \in HeldIds, cardId \in {0, 1} :
           FlipCard(ws, gameId, cardId)
    \/ \E gameId \in DOMAIN games : DeleteGame(gameId)
    \/ UnlockTimer
    \/ \E ws \in Sockets : Close(ws)

DeletionSpec == Init /\ [][DeletionNext]_vars

(* C32: a deleted session is never resurrected.  A FLIP_CARD that names    *)
(* the id of a session that is gone is answered "Game not found", stores   *)
(* nothing and arms no timer; the firing of a timer whose session is gone  *)
(* leaves the registry and what was sent as they were; and no step puts an *)
(* id that was handed out and is not stored back into the registry.        *)
C32_DeletedNeverResurrected ==
    /\ [](\A gameId \in HeldIds : \A ws \in Sockets, cardId \in {1, UnknownId} :
             LET effect == FlipCardEffect(ws, gameId, cardId)
             IN  /\ effect.games = games
                 /\ effect.timers = timers
                 /\ ~effect.armed
                 /\ effect.sentFrom = sentFrom
                 /\ wsOpen[ws] =>
                        effect.lastSent[ws] = ErrorMessage("Game not found"))
    /\ [][\A gameId \in HeldIds :
             TimerFires(gameId) =>
                 /\ games' = games
                 /\ lastSent' = lastSent
                 /\ sentFrom' = sentFrom]_vars
    /\ [][\A gameId \in 1..idCounter :
             gameId \notin DOMAIN games => gameId \notin DOMAIN games']_vars

\* a session was deleted while locked; a flip for it was answered "Game not
\* found", and then its timer fired and stored and sent nothing
C32_Witness ==
    /\ lastOp = "unlock"
    /\ timers = <<>>
    /\ games = <<>>
    /\ \E ws \in Sockets :
           /\ wsOpen[ws]
           /\ currentGameId[ws] # 0
           /\ lastSent[ws] = ErrorMessage("Game not found")

----------------------------------------------------------------------------
(* The sanitizers called directly, on sessions of a game in progress and   *)
(* on sessions that differ from them in hidden values only.  lastOp        *)
(* records the call and what it returned.                                  *)

\* number of steps (flips, unlocks) played before the sanitizer is called
MaxFlips == 6

\* the sessions one step of play makes of a session: the first face-down
\* card flipped, then its partner or the first card of another value; the
\* unlock of a locked board
PlayedOn(gameState) ==
    IF gameState.lockBoard
    THEN {unlockBoard(gameState)}
    ELSE LET picked == IF gameState.flippedCardIds = <<>>
                       THEN OpeningCard(gameState)
                       ELSE Partners(gameState) \cup FirstOther(gameState)
         IN  {applyMove(gameState, cardId).gameState :
                 cardId \in {c \in picked :
                                ~HasError(applyMove(gameState, c))}}

\* the sessions of a game of two players after at most n steps
RECURSIVE PlayedSessions(_)
PlayedSessions(n) ==
    IF n = 0
    THEN {createGameState(2, 1, seed) : seed \in 0..MaxSeed}
    ELSE LET played == PlayedSessions(n - 1)
         IN  played \cup UNION {PlayedOn(gameState) : gameState \in played}

\* board positions of the cards whose value the client must not see
Hidden(gameState) == FaceDown(gameState)

\* a value no card carries
NoValue == "?"

\* the session with other values on hidden cards: on one of them, or the
\* same value on all of them
HiddenVariants(gameState) ==
    LET values == Range(cardValues) \cup {NoValue}
        withValue(positions, v) ==
            [gameState EXCEPT !.cards =
                [i \in DOMAIN gameState.cards |->
                    IF i \in positions
                    THEN [gameState.cards[i] EXCEPT !.value = v]
                    ELSE gameState.cards[i]]]
    IN  {withValue({i}, v) : i \in Hidden(gameState), v \in values}
            \cup {withValue(Hidden(gameState), v) : v \in values}

SanitizeInit == ShuffleInit

\* sanitizeGameState(gameState) and sanitizeGameState(other), by both
\* sanitizers.  They keep nothing between calls, so a behaviour makes one
\* pair of calls
SanitizeCall(gameState, other) ==
    /\ lastOp.op = "init"
    /\ lastOp' = [op |-> "sanitize", gameState |-> gameState, other |-> other,
                  view |-> sanitizeGameState(gameState),
                  otherView |-> sanitizeGameState(other),
                  moduleView |-> sanitizeGameStateModule(gameState),
                  otherModuleView |-> sanitizeGameStateModule(other)]
    /\ UNCHANGED <<games, idCounter, timers, wsOpen, currentGameId, lastSent,
                   sentFrom, misses>>

SanitizeNext ==
    \E gameState \in PlayedSessions(MaxFlips) :
        \E other \in HiddenVariants(gameState) : SanitizeCall(gameState, other)

SanitizeSpec == SanitizeInit /\ [][SanitizeNext]_vars

\* the two sessions are the same but for the values of cards that are
\* neither flipped nor matched
SameButHidden(gameState, other) ==
    /\ [other EXCEPT !.cards = gameState.cards] = gameState
    /\ DOMAIN other.cards = DOMAIN gameState.cards
    /\ \A i \in DOMAIN gameState.cards :
           /\ [other.cards[i] EXCEPT !.value = gameState.cards[i].value]
                  = gameState.cards[i]
           /\ other.cards[i].value # gameState.cards[i].value
                  => /\ ~gameState.cards[i].isMatched
                     /\ ~IsFlipped(gameState, gameState.cards[i].id)

(* C33: the sanitized view does not depend on hidden values.  For two      *)
(* sessions that are the same but for the values of cards neither flipped  *)
(* nor matched, the sanitizer of the server returns the same view, and so  *)
(* does the stand-alone sanitizer.                                         *)
C33_ViewIgnoresHiddenValues ==
    (lastOp.op = "sanitize" /\ SameButHidden(lastOp.gameState, lastOp.other)) =>
        /\ lastOp.otherView = lastOp.view
        /\ lastOp.otherModuleView = lastOp.moduleView

\* the sanitizers were called on a board with a matched pair, a flipped
\* card and hidden cards, and on the same board with another value on
\* every hidden card
C33_Witness ==
    /\ lastOp.op = "sanitize"
    /\ SameButHidden(lastOp.gameState, lastOp.other)
    /\ Len(lastOp.gameState.flippedCardIds) = 1
    /\ HasMatch(lastOp.gameState)
    /\ \A i \in Hidden(lastOp.gameState) :
           /\ lastOp.other.cards[i].value = NoValue
           /\ "value" \notin DOMAIN lastOp.view.cards[i]
    /\ \E i \in DOMAIN lastOp.view.cards : "value" \in DOMAIN lastOp.view.cards[i]

----------------------------------------------------------------------------
(* The client (public/js/client.js with its game controller) on one        *)
(* connection to the server.  lastOp holds the client: the gameId it       *)
(* holds (0 is null), the GAME_STATE its UI shows, and the messages in     *)
(* flight in both directions, each direction in order.                     *)

\* the connection of the client
ClientSocket == CHOOSE ws \in Sockets : TRUE

ClientInit ==
    /\ games = <<>>
    /\ idCounter = 0
    /\ timers = <<>>
    /\ wsOpen = [ws \in Sockets |-> TRUE]
    /\ currentGameId = [ws \in Sockets |-> 0]
    /\ lastSent = [ws \in Sockets |-> NoMessage]
    /\ sentFrom = [ws \in Sockets |-> NoState]
    /\ lastOp = [op |-> "init", gameId |-> 0, shown |-> NoState,
                 inbox |-> <<>>, outbox |-> <<>>]
    /\ misses = <<>>

\* startGame(playerCount): currentGameState = null, gameClient.gameId =
\* null, then gameClient.startNewGame sends NEW_GAME.  A second game is
\* started, no third; one request is in flight at a time
ClientStartGame(playerCount) ==
    /\ lastOp.outbox = <<>>
    /\ idCounter <= IdsUsedByCreate(playerCount)
    /\ lastOp' = [lastOp EXCEPT
                     !.op = "startGame",
                     !.gameId = 0,
                     !.shown = NoState,
                     !.outbox = Append(@, [type |-> "NEW_GAME",
                                           playerCount |->
                                               RawNumber(10 * playerCount)])]
    /\ UNCHANGED <<games, idCounter, timers, wsOpen, currentGameId, lastSent,
                   sentFrom, misses>>

\* the cards of the shown board a click lands on: the first two in board
\* order that are not matched
ClickInputs(shown) ==
    LET open == {i \in DOMAIN shown.cards : ~shown.cards[i].isMatched}
    IN  {shown.cards[i].id : i \in
            {i \in open : Cardinality({k \in open : k < i}) < 2}}

\* handleCardClick(cardId), then gameClient.flipCard(cardId): FLIP_CARD
\* with the gameId the client holds.  The user clicks once everything the
\* server has sent is shown
ClientClick(cardId) ==
    /\ lastOp.outbox = <<>>
    /\ lastOp.inbox = <<>>
    /\ lastOp.shown # NoState
    /\ lastOp.shown.status = "playing"
    /\ lastOp.gameId # 0
    /\ cardId \in ClickInputs(lastOp.shown)
    /\ lastOp' = [lastOp EXCEPT
                     !.op = "click",
                     !.outbox = Append(@, [type |-> "FLIP_CARD",
                                           gameId |-> lastOp.gameId,
                                           cardId |-> cardId])]
    /\ UNCHANGED <<games, idCounter, timers, wsOpen, currentGameId, lastSent,
                   sentFrom, misses>>

\* ws.onmessage: handleGameState latches the gameId if the client holds
\* none and hands the message to onGameStateUpdate, which shows it; an
\* ERROR goes to onError
ClientReceive ==
    /\ lastOp.inbox # <<>>
    /\ LET message == Head(lastOp.inbox)
       IN  lastOp' =
               IF message.type = "GAME_STATE"
               THEN [lastOp EXCEPT
                        !.op = "receive",
                        !.gameId = IF message.gameId # 0 /\ lastOp.gameId = 0
                                   THEN message.gameId
                                   ELSE lastOp.gameId,
                        !.shown = message,
                        !.inbox = Tail(@)]
               ELSE [lastOp EXCEPT !.op = "receive", !.inbox = Tail(@)]
    /\ UNCHANGED <<games, idCounter, timers, wsOpen, currentGameId, lastSent,
                   sentFrom, misses>>

\* the server takes the NEW_GAME at the head of the client's messages
ServerNewGame(ws) ==
    /\ lastOp.outbox # <<>>
    /\ Head(lastOp.outbox).type = "NEW_GAME"
    /\ LET validation == validateNewGame(Head(lastOp.outbox).playerCount)
       IN  IF ~validation.valid
           THEN /\ lastSent' = safeSend(ws, ErrorMessage(validation.error))
                /\ lastOp' = [lastOp EXCEPT
                                 !.op = "NEW_GAME",
                                 !.outbox = Tail(@),
                                 !.inbox = Append(@, lastSent'[ws])]
                /\ UNCHANGED <<games, idCounter, currentGameId, sentFrom,
                               misses>>
           ELSE LET newGames == createGame(validation.playerCount, 0)
                    gameId == idCounter + IdsUsedByCreate(validation.playerCount)
                IN  /\ ~CreateThrows(validation.playerCount)
                    /\ games' = newGames
                    /\ idCounter' = gameId
                    /\ currentGameId' = [currentGameId EXCEPT ![ws] = gameId]
                    /\ lastSent' = sendGameState(ws, newGames[gameId])
                    /\ sentFrom' = NoteSent(ws, newGames[gameId])
                    /\ misses' = [g \in DOMAIN misses \cup {gameId} |->
                                     IF g = gameId THEN 0 ELSE misses[g]]
                    /\ lastOp' = [lastOp EXCEPT
                                     !.op = "NEW_GAME",
                                     !.outbox = Tail(@),
                                     !.inbox = Append(@, lastSent'[ws])]
    /\ UNCHANGED <<timers, wsOpen>>

\* the server takes the FLIP_CARD at the head of the client's messages; a
\* game takes at most MaxMisses mismatches
ServerFlipCard(ws) ==
    /\ lastOp.outbox # <<>>
    /\ Head(lastOp.outbox).type = "FLIP_CARD"
    /\ LET message == Head(lastOp.outbox)
           effect == FlipCardEffect(ws, message.gameId, message.cardId)
       IN  /\ effect.armed => misses[message.gameId] < MaxMisses
           /\ games' = effect.games
           /\ timers' = effect.timers
           /\ lastSent' = effect.lastSent
           /\ sentFrom' = effect.sentFrom
           /\ misses' = IF effect.armed
                        THEN [misses EXCEPT ![message.gameId] = @ + 1]
                        ELSE misses
           /\ lastOp' = [lastOp EXCEPT
                            !.op = "FLIP_CARD",
                            !.outbox = Tail(@),
                            !.inbox = Append(@, effect.lastSent[ws])]
    /\ UNCHANGED <<idCounter, wsOpen, currentGameId>>

\* the setTimeout callback: what it sends goes to the connection that made
\* the flip
ServerUnlockTimer ==
    /\ timers # <<>>
    /\ LET timer == Head(timers)
       IN  /\ timers' = Tail(timers)
           /\ IF HasGame(timer.gameId)
              THEN LET unlockedState == unlockBoard(getGame(timer.gameId))
                   IN  /\ games' = updateGame(timer.gameId, unlockedState)
                       /\ lastSent' = sendGameState(timer.ws, unlockedState)
                       /\ sentFrom' = NoteSent(timer.ws, unlockedState)
                       /\ lastOp' = [lastOp EXCEPT
                                        !.op = "unlock",
                                        !.inbox = Append(@, lastSent'[timer.ws])]
              ELSE /\ lastOp' = [lastOp EXCEPT !.op = "unlock"]
                   /\ UNCHANGED <<games, lastSent, sentFrom>>
    /\ UNCHANGED <<idCounter, wsOpen, currentGameId, misses>>

ClientNext ==
    \/ \E playerCount \in {2} : ClientStartGame(playerCount)
    \/ \E cardId \in 1..idCounter : ClientClick(cardId)
    \/ ClientReceive
    \/ ServerNewGame(ClientSocket)
    \/ ServerFlipCard(ClientSocket)
    \/ ServerUnlockTimer

ClientSpec == ClientInit /\ [][ClientNext]_vars

(* C34: every GAME_STATE the client's UI shows belongs to the game whose   *)
(* id the client holds, and every FLIP_CARD the client has sent pairs a    *)
(* card id with the gameId of the game that card belongs to.               *)
C34_ClientShowsHeldGame ==
    /\ lastOp.shown # NoState => lastOp.shown.gameId = lastOp.gameId
    /\ \A k \in DOMAIN lastOp.outbox :
           lastOp.outbox[k].type = "FLIP_CARD" =>
               /\ HasGame(lastOp.outbox[k].gameId)
               /\ lastOp.outbox[k].cardId
                      \in CardIds(games[lastOp.outbox[k].gameId])

----------------------------------------------------------------------------
(* What a session keeps for life *)

\* the session without what play changes: gameId, the cards with id and
\* value in board order, the players with id and color in seat order
Fixed(gameState) ==
    [gameId |-> gameState.gameId,
     cards |-> [i \in DOMAIN gameState.cards |->
                   [id |-> gameState.cards[i].id,
                    value |-> gameState.cards[i].value]],
     players |-> [i \in DOMAIN gameState.players |->
                     [id |-> gameState.players[i].id,
                      color |-> gameState.players[i].color]]]

\* the properties a session and its cards and players are made of
Shape(gameState) ==
    [session |-> DOMAIN gameState,
     cards |-> [i \in DOMAIN gameState.cards |-> DOMAIN gameState.cards[i]],
     players |-> [i \in DOMAIN gameState.players |->
                     DOMAIN gameState.players[i]]]

(* C35: every stored session is stored under its gameId, and no step of    *)
(* the server (accepted flip, rejected flip, unlock, or any other) removes *)
(* a session or changes its gameId, the number, order, ids or values of    *)
(* its cards, or the number, order, ids or colors of its players; a        *)
(* session consists of gameId, cards, players, activePlayerIndex,          *)
(* flippedCardIds, lockBoard and status throughout.                        *)
C35_SessionFrame ==
    /\ [](\A g \in DOMAIN games :
             /\ games[g].gameId = g
             /\ DOMAIN games[g] = {"gameId", "cards", "players",
                                   "activePlayerIndex", "flippedCardIds",
                                   "lockBoard", "status"})
    /\ [][\A g \in DOMAIN games :
             /\ g \in DOMAIN games'
             /\ Fixed(games'[g]) = Fixed(games[g])
             /\ Shape(games'[g]) = Shape(games[g])]_vars

\* a flip has just been rejected in a game in which a pair was matched and
\* a locked board was unlocked
C35_Witness ==
    /\ lastOp = "FLIP_CARD"
    /\ timers = <<>>
    /\ \E ws \in Sockets : lastSent[ws].type = "ERROR"
    /\ \E g \in DOMAIN games :
           /\ misses[g] = 1
           /\ HasMatch(games[g])
           /\ ~games[g].lockBoard

----------------------------------------------------------------------------
(* The safety check of applyMove *)

InternalError == "Internal error: flipped cards not found."

\* a flip gets as far as the resolution of two flipped cards
ReachesResolution(gameState, cardId) ==
    /\ gameState.status = "playing"
    /\ FindCard(gameState.cards, cardId) # 0
    /\ ~gameState.cards[FindCard(gameState.cards, cardId)].isMatched
    /\ ~Includes(gameState.flippedCardIds, cardId)
    /\ Len(gameState.flippedCardIds) = 1

\* one of the two flipped ids names no card: the condition of the safety
\* check
FlippedCardMissing(gameState, cardId) ==
    \/ FindCard(gameState.cards, gameState.flippedCardIds[1]) = 0
    \/ FindCard(gameState.cards, cardId) = 0

(* C36: the safety branch of applyMove is never taken on a stored session. *)
(* Every flipped id of a stored session names one of its cards; no flip,   *)
(* whatever id it carries, reaches the resolution with a flipped card      *)
(* missing; and applyMove never returns the internal error, nor an error   *)
(* together with a session.                                                *)
C36_SafetyBranchUnreachable ==
    \A g \in DOMAIN games :
        /\ \A k \in DOMAIN games[g].flippedCardIds :
               FindCard(games[g].cards, games[g].flippedCardIds[k]) # 0
        /\ \A cardId \in MoveInputs(games[g]) \cup {0} :
               /\ ReachesResolution(games[g], cardId)
                      => ~FlippedCardMissing(games[g], cardId)
               /\ LET result == applyMove(games[g], cardId)
                  IN  HasError(result) =>
                          /\ result.error # InternalError
                          /\ "gameState" \notin DOMAIN result
               /\ LET silent == applyMoveSilent(games[g], cardId)
                  IN  (ReachesResolution(games[g], cardId)
                          /\ ~games[g].lockBoard /\ ~IsIgnored(silent)) =>
                          \/ silent.gameState.lockBoard
                          \/ silent.gameState.cards # games[g].cards

\* one card is flipped in a game that has seen a match and a mismatch; a
\* flip of an id that names no card is turned away as an invalid card
C36_Witness ==
    \E g \in DOMAIN games :
        /\ Len(games[g].flippedCardIds) = 1
        /\ HasMatch(games[g])
        /\ misses[g] = 1
        /\ applyMove(games[g], UnknownId) = [error |-> "Invalid cardId."]
        /\ \E cardId \in CardIds(games[g]) :
               ReachesResolution(games[g], cardId)

====
